---- MODULE Spec2Model ----
(***************************************************************************)
(* MidiControl: a bridge from MIDI note triggers (virtual MIDI port) to    *)
(* mixer control protocols.  The model follows the MVC code path:          *)
(*   view/midi_view.py  ->  controller/midi_controller.py  ->              *)
(*   model/midi_backend.py (queue), model/qu5_midi_service.py (Qu, MIDI    *)
(*   over TCP), model/dm3_osc_service.py (DM3, OSC over UDP).              *)
(* Wire messages of the Qu adapter are the byte strings mido produces;     *)
(* OSC messages are records.                                               *)
(***************************************************************************)
EXTENDS Integers, Sequences, FiniteSets, TLC

VARIABLES
    initialized,                \* MidiController._initialized
    virtual_port_active,        \* MidiBackend.virtual_port_active
    mixer_var,                  \* view.mixer_var
    midi_channel_var,           \* view.midi_channel_var (spinbox 1..16)
    use_tcp_midi_var,           \* view.use_tcp_midi_var
    is_connected,               \* view.is_connected
    is_monitoring,              \* MidiController.is_monitoring
    qu5_service,                \* controller.qu5_service is not None
    qu5_mixer_name,             \* Qu5MIDIService.mixer_name
    use_tcp_midi,               \* Qu5MIDIService.use_tcp_midi
    qu5_socket,                 \* Qu5MIDIService.qu5_socket: "none" | "open"
    qu5_connected,              \* Qu5MIDIService.qu5_connected
    qu5_ping_fresh,             \* now - Qu5MIDIService._last_ping_time < _ping_interval
    dm3_service,                \* controller.dm3_service is not None
    dm3_mixer_name,             \* DM3OSCService.mixer_name
    dm3_client,                 \* DM3OSCService.dm3_client is not None
    dm3_connected,              \* DM3OSCService.dm3_connected
    dm3_ping_fresh,             \* now - DM3OSCService._last_ping_time < _ping_interval
    connection_monitor_active,  \* DM3OSCService.connection_monitor_active
    monitors,                   \* the DM3ConnectionMonitor threads of the current service;
                                \* `stale` marks a thread that outlived a disconnect
    message_queue,              \* MidiBackend._message_queue
    tickLog,                    \* what the last step dispatched and transmitted
    current_time,               \* time.time(), in seconds
    last_ping_time,             \* _last_ping_time of one service object
    last_probe,                 \* time and result of the last ping that was run
    ping_call,                  \* the last ping_host call: probed or not, and its return
    connect_call,               \* the last connect() on a connected service, and its return
    shutdown_completed,         \* MidiController.shutdown() has run to its end
    port_thread,                \* the VirtualPortCreation thread: "none" | "running" | "cleanup" | "done"
    connection_lock,            \* holder of each service's _connection_lock
    control_pc,                 \* where the control (Tk) thread is inside a service call
    logger_lock                 \* ThreadSafeLogger._lock of the DM3 service: 0, or the monitor thread holding it

vars == << initialized, virtual_port_active, mixer_var, midi_channel_var,
           use_tcp_midi_var, is_connected, is_monitoring,
           qu5_service, qu5_mixer_name, use_tcp_midi, qu5_socket, qu5_connected,
           qu5_ping_fresh,
           dm3_service, dm3_mixer_name, dm3_client, dm3_connected, dm3_ping_fresh,
           connection_monitor_active, monitors, message_queue, tickLog,
           current_time, last_ping_time, last_probe, ping_call, connect_call,
           shutdown_completed, port_thread,
           connection_lock, control_pc, logger_lock >>

viewVars == << mixer_var, midi_channel_var, use_tcp_midi_var, is_connected >>
qu5Vars  == << qu5_service, qu5_mixer_name, use_tcp_midi, qu5_socket,
               qu5_connected, qu5_ping_fresh >>
pingVars == << current_time, last_ping_time, last_probe, ping_call >>
lockVars == << connection_lock, control_pc, logger_lock >>
apiVars == << connect_call, shutdown_completed, port_thread >>
callVars == << pingVars, apiVars, lockVars >>
dm3Vars  == << dm3_service, dm3_mixer_name, dm3_client, dm3_connected,
               dm3_ping_fresh, connection_monitor_active, monitors >>

(***************************************************************************)
(* Bounds of the model.                                                    *)
(***************************************************************************)
\* Queue() in the code is unbounded; the receive callback is cut off here.
MaxQueue == 2
\* Monitor threads alive at once for one DM3 service object.
MaxMonitors == 2
\* The longest burst of events between two ticks in the burst specification.
MaxBurst == 102
\* The clock of the ping specification stops here.
MaxTime == 14

(***************************************************************************)
(* Program constants.                                                      *)
(***************************************************************************)
NOTE_ON_TYPE == "note_on"
NOTE_OFF_TYPE == "note_off"
CONTROL_CHANGE_TYPE == "control_change"
DM3 == "DM3"
QU == "Qu-5/6/7"
Mixers == {DM3, QU}
max_failures == 3
ping_interval == 3
max_messages == 100

MUTE_ADDRESS == "/yosc:req/set/MIXER:Current/InCh/Fader/On/{channel_num}/1"
SCENE_ADDRESS == "/yosc:req/ssrecall_ex"

(***************************************************************************)
(* Inputs.  Notes are the boundary values of the adapters' range checks:   *)
(* soft keys 7|8 and 11|12, scenes 99|100, mute channels 15|16, and the    *)
(* ends of the MIDI data range.                                            *)
(***************************************************************************)
SoftKeyNotes == {0, 7, 8, 11, 12}
SceneNotes == {0, 99, 100, 127}
MuteNotes == {0, 15, 16, 127}
Velocities == {0, 100}
MidiChannels == {1, 3}

NotesOf(channel) ==
    IF channel = 0 THEN SoftKeyNotes
    ELSE IF channel = 1 THEN SceneNotes
    ELSE IF channel = 2 THEN MuteNotes
    ELSE {0}

NoteEvents ==
    UNION {[type : {NOTE_ON_TYPE, NOTE_OFF_TYPE}, channel : {ch},
            note : NotesOf(ch), velocity : Velocities] : ch \in 0..2}
\* Channel 3 stands for the channels outside {0,1,2}.
UnroutedEvents ==
    {[type |-> NOTE_ON_TYPE, channel |-> 3, note |-> 0, velocity |-> 100]}
\* A message that is neither note_on nor note_off (note and velocity carry
\* the control number and the value).
OtherEvents ==
    {[type |-> CONTROL_CHANGE_TYPE, channel |-> 2, note |-> 0, velocity |-> 100]}
Events == NoteEvents \cup UnroutedEvents \cup OtherEvents

\* The events of the queue specification: a mute and a scene recall.
QueueEvents ==
    {[type |-> NOTE_ON_TYPE, channel |-> 2, note |-> 0, velocity |-> 100],
     [type |-> NOTE_ON_TYPE, channel |-> 1, note |-> 0, velocity |-> 100]}

(***************************************************************************)
(* mido.Message(...).bytes()                                               *)
(***************************************************************************)
ControlChange(ch, control, value) == << 176 + ch, control, value >>
ProgramChange(ch, program) == << 192 + ch, program >>
NoteOn(ch, note, velocity) == << 144 + ch, note, velocity >>
NoteOff(ch, note, velocity) == << 128 + ch, note, velocity >>

OscMessage(address, slot, name, value) ==
    [address |-> address, slot |-> slot, name |-> name, value |-> value]

Max(a, b) == IF a >= b THEN a ELSE b

(***************************************************************************)
(* Qu5MIDIService: sending.  `connected` is qu5_connected at the call,     *)
(* `raises` says whether socket.send raises in this call.  The result      *)
(* carries the return value, the flag after the call, the bytes written    *)
(* to the socket and the warnings/errors logged.                           *)
(***************************************************************************)
\* send_midi_message with the except branch swallowing the error: the failed
\* send is logged but reported to the caller as a success.
send_midi_message_swallows(connected, message, raises) ==
    IF ~connected
    THEN [ok |-> FALSE, connected |-> FALSE, tx |-> << >>,
          reports |-> {"qu5_not_connected"}]
    ELSE IF use_tcp_midi /\ qu5_socket = "open"
    THEN IF raises
         THEN [ok |-> TRUE, connected |-> TRUE, tx |-> << >>,
               reports |-> {"qu5_send_failed"}]
         ELSE [ok |-> TRUE, connected |-> TRUE, tx |-> << message >>,
               reports |-> {}]
    ELSE [ok |-> TRUE, connected |-> TRUE, tx |-> << >>, reports |-> {}]

send_midi_message(connected, message, raises) ==
    IF ~connected
    THEN [ok |-> FALSE, connected |-> FALSE, tx |-> << >>,
          reports |-> {"qu5_not_connected"}]
    ELSE IF use_tcp_midi /\ qu5_socket = "open"
    THEN IF raises
         THEN [ok |-> FALSE, connected |-> FALSE, tx |-> << >>,
               reports |-> {"qu5_send_failed"}]
         ELSE [ok |-> TRUE, connected |-> TRUE, tx |-> << message >>,
               reports |-> {}]
    \* USB branch: logs [TX][USB] and returns True; nothing is written.
    ELSE [ok |-> TRUE, connected |-> TRUE, tx |-> << >>, reports |-> {}]

\* The sequence list with the 1-based channel number in CC98.
nrpn_sequence_one_based(channel_num, mute_value, midi_channel) ==
    << ControlChange(midi_channel, 99, 0),
       ControlChange(midi_channel, 98, channel_num),
       ControlChange(midi_channel, 6, 0),
       ControlChange(midi_channel, 38, mute_value) >>

\* The sequence list of send_nrpn_mute_sequence.
nrpn_sequence(channel_num, mute_value, midi_channel) ==
    << ControlChange(midi_channel, 99, 0),
       ControlChange(midi_channel, 98, channel_num - 1),
       ControlChange(midi_channel, 6, 0),
       ControlChange(midi_channel, 38, mute_value) >>

\* The for loop of send_nrpn_mute_sequence from message i on: the first
\* failed send logs "NRPN CC# failed" and returns.  failAt is the number of
\* the send_midi_message call whose socket.send raises (0: none).
RECURSIVE nrpn_loop(_, _, _, _, _, _)
nrpn_loop(sequence, i, connected, failAt, tx, reports) ==
    IF i > Len(sequence)
    THEN [connected |-> connected, tx |-> tx, reports |-> reports]
    ELSE LET r == send_midi_message(connected, sequence[i], failAt = i)
         IN  IF ~r.ok
             THEN [connected |-> r.connected, tx |-> tx \o r.tx,
                   reports |-> reports \cup r.reports \cup {"nrpn_cc_failed"}]
             ELSE nrpn_loop(sequence, i + 1, r.connected, failAt,
                            tx \o r.tx, reports \cup r.reports)

send_nrpn_mute_sequence(connected, channel_num, mute_value, mixer_midi_channel, failAt) ==
    LET midi_channel == mixer_midi_channel - 1
    IN  nrpn_loop(nrpn_sequence(channel_num, mute_value, midi_channel), 1,
                  connected, failAt, << >>, {})

\* send_softkey_command with the two sends in the opposite order.
send_softkey_command_off_first(connected, softkey_number, mixer_midi_channel, failAt) ==
    LET midi_channel == mixer_midi_channel - 1
        midi_note == 48 + softkey_number
        off == send_midi_message(connected,
                   NoteOff(midi_channel, midi_note, 0), failAt = 1)
        on  == send_midi_message(off.connected,
                   NoteOn(midi_channel, midi_note, 127), failAt = 2)
    IN  [connected |-> on.connected, tx |-> off.tx \o on.tx,
         reports |-> on.reports \cup off.reports \cup
                     (IF on.ok /\ off.ok THEN {} ELSE {"softkey_failed"})]

send_softkey_command(connected, softkey_number, mixer_midi_channel, failAt) ==
    LET midi_channel == mixer_midi_channel - 1
        midi_note == 48 + softkey_number
        on  == send_midi_message(connected,
                   NoteOn(midi_channel, midi_note, 127), failAt = 1)
        off == send_midi_message(on.connected,
                   NoteOff(midi_channel, midi_note, 0), failAt = 2)
    IN  [connected |-> off.connected, tx |-> on.tx \o off.tx,
         reports |-> on.reports \cup off.reports \cup
                     (IF on.ok /\ off.ok THEN {} ELSE {"softkey_failed"})]

qu5_recall_scene_by_number(connected, scene_number, mixer_midi_channel, failAt) ==
    LET midi_channel == mixer_midi_channel - 1
        r == send_midi_message(connected,
                 ProgramChange(midi_channel, Max(0, scene_number - 1)), failAt = 1)
    IN  [connected |-> r.connected, tx |-> r.tx,
         reports |-> r.reports \cup
                     (IF r.ok THEN {} ELSE {"program_change_failed"})]

Silent(connected) == [connected |-> connected, tx |-> << >>, reports |-> {}]
Rejected(connected, report) ==
    [connected |-> connected, tx |-> << >>, reports |-> {report}]

\* handle_mute with the mute value taken from `velocity >= 0`.
qu5_handle_mute_any_velocity(connected, note, velocity, mixer_midi_channel, failAt) ==
    IF ~connected THEN Silent(connected)
    ELSE IF note < 0 \/ note > 15
    THEN Rejected(connected, "invalid_channel")
    ELSE LET channel_num == note + 1
             mute_on_off == IF velocity >= 0 THEN 1 ELSE 0
         IN  send_nrpn_mute_sequence(connected, channel_num, mute_on_off,
                                     mixer_midi_channel, failAt)

qu5_handle_mute(connected, note, velocity, mixer_midi_channel, failAt) ==
    IF ~connected THEN Silent(connected)
    ELSE IF note < 0 \/ note > 15
    THEN Rejected(connected, "invalid_channel")
    ELSE LET channel_num == note + 1
             mute_on_off == IF velocity >= 1 THEN 1 ELSE 0
         IN  send_nrpn_mute_sequence(connected, channel_num, mute_on_off,
                                     mixer_midi_channel, failAt)

qu5_handle_scene(connected, note, mixer_midi_channel, failAt) ==
    IF ~connected THEN Silent(connected)
    ELSE IF note < 0 \/ note > 99
    THEN Rejected(connected, "invalid_scene")
    ELSE qu5_recall_scene_by_number(connected, note + 1, mixer_midi_channel, failAt)

\* handle_softkey without the range check.
qu5_handle_softkey_unchecked(connected, note, mixer_midi_channel, failAt) ==
    IF ~connected THEN Silent(connected)
    ELSE send_softkey_command(connected, note, mixer_midi_channel, failAt)

qu5_handle_softkey(connected, note, mixer_midi_channel, failAt) ==
    IF ~connected THEN Silent(connected)
    ELSE IF note < 0 \/ note > 7
    THEN Rejected(connected, "invalid_softkey")
    ELSE send_softkey_command(connected, note, mixer_midi_channel, failAt)

(***************************************************************************)
(* DM3OSCService: sending.  `raises` says whether the UDP send raises.     *)
(***************************************************************************)
\* send_osc_message without `self.dm3_connected = False` in the except branch.
send_osc_message_stays_connected(connected, message, raises) ==
    IF ~connected \/ ~dm3_client
    THEN [ok |-> FALSE, connected |-> connected, osc |-> << >>,
          reports |-> {"dm3_not_connected"}]
    ELSE IF raises
    THEN [ok |-> FALSE, connected |-> TRUE, osc |-> << >>,
          reports |-> {"dm3_send_failed"}]
    ELSE [ok |-> TRUE, connected |-> TRUE, osc |-> << message >>, reports |-> {}]

send_osc_message(connected, message, raises) ==
    IF ~connected \/ ~dm3_client
    THEN [ok |-> FALSE, connected |-> connected, osc |-> << >>,
          reports |-> {"dm3_not_connected"}]
    ELSE IF raises
    THEN [ok |-> FALSE, connected |-> FALSE, osc |-> << >>,
          reports |-> {"dm3_send_failed"}]
    ELSE [ok |-> TRUE, connected |-> TRUE, osc |-> << message >>, reports |-> {}]

OscResult(r) == [connected |-> r.connected, osc |-> r.osc, reports |-> r.reports]

\* mute_channel with the polarity of the Fader/On payload not inverted.
mute_channel_payload_one(connected, channel_num, failAt) ==
    OscResult(send_osc_message(connected,
        OscMessage(MUTE_ADDRESS, channel_num, "", 1), failAt = 1))

mute_channel(connected, channel_num, failAt) ==
    OscResult(send_osc_message(connected,
        OscMessage(MUTE_ADDRESS, channel_num, "", 0), failAt = 1))

unmute_channel(connected, channel_num, failAt) ==
    OscResult(send_osc_message(connected,
        OscMessage(MUTE_ADDRESS, channel_num, "", 1), failAt = 1))

\* recall_scene_by_number sending the 1-based scene number as the index.
dm3_recall_scene_one_based(connected, scene_number, failAt) ==
    LET scene_index == scene_number - 1
    IN  IF scene_index < 0 \/ scene_index > 99
        THEN [connected |-> connected, osc |-> << >>, reports |-> {"invalid_scene"}]
        ELSE OscResult(send_osc_message(connected,
                 OscMessage(SCENE_ADDRESS, 0, "scene_a", scene_number), failAt = 1))

dm3_recall_scene_by_number(connected, scene_number, failAt) ==
    LET scene_index == scene_number - 1
    IN  IF scene_index < 0 \/ scene_index > 99
        THEN [connected |-> connected, osc |-> << >>, reports |-> {"invalid_scene"}]
        ELSE OscResult(send_osc_message(connected,
                 OscMessage(SCENE_ADDRESS, 0, "scene_a", scene_index), failAt = 1))

OscSilent(connected) == [connected |-> connected, osc |-> << >>, reports |-> {}]

dm3_handle_mute(connected, note, velocity, failAt) ==
    IF ~connected THEN OscSilent(connected)
    ELSE LET channel_num == note + 1
         IN  IF velocity >= 1
             THEN mute_channel(connected, channel_num, failAt)
             ELSE unmute_channel(connected, channel_num, failAt)

dm3_handle_scene(connected, note, failAt) ==
    IF ~connected THEN OscSilent(connected)
    ELSE dm3_recall_scene_by_number(connected, note + 1, failAt)

(***************************************************************************)
(* MidiController._handle_midi_message: routing by incoming channel.       *)
(* quc/dmc are the services' connected flags when the handler is called.   *)
(* The result is the dispatch record of the event.                         *)
(***************************************************************************)
DispatchRecord(message, failAt, quc, dmc, q, d, extra) ==
    [msg |-> message,
     \* the send call that raised, 0 when none did
     failAt |-> IF (q.reports \cup d.reports) \cap
                       {"qu5_send_failed", "dm3_send_failed"} # {}
                THEN failAt ELSE 0, mixer |-> mixer_var, midi_channel |-> midi_channel_var,
     tcp |-> (use_tcp_midi /\ qu5_socket = "open"),
     quc_before |-> quc, dmc_before |-> dmc,
     quc |-> q.connected, dmc |-> d.connected,
     tx |-> q.tx, osc |-> d.osc,
     reports |-> q.reports \cup d.reports \cup extra]

\* The velocity handed to handle_mute, without the note_off override.
effective_velocity_raw(message) == message.velocity

\* effective_velocity in the channel 2 branch.
effective_velocity(message) ==
    IF message.type = NOTE_ON_TYPE THEN message.velocity ELSE 0

\* The router without the NoteOn / velocity test on the soft-key channel.
handle_midi_message_ungated(message, quc, dmc, failAt) ==
    LET mixer == mixer_var
        mixer_midi_channel == midi_channel_var
        noQu == Silent(quc)
        noDm == OscSilent(dmc)
    IN  IF message.type \notin {NOTE_ON_TYPE, NOTE_OFF_TYPE}
        THEN DispatchRecord(message, failAt, quc, dmc, noQu, noDm, {})
        ELSE IF message.channel = 0
        THEN IF mixer = QU /\ qu5_service
             THEN DispatchRecord(message, failAt, quc, dmc,
                      qu5_handle_softkey(quc, message.note, mixer_midi_channel, failAt),
                      noDm, {})
             ELSE DispatchRecord(message, failAt, quc, dmc, noQu, noDm, {})
        ELSE IF message.channel = 1
        THEN IF message.type = NOTE_ON_TYPE /\ message.velocity > 0
             THEN IF mixer = DM3 /\ dm3_service
                  THEN DispatchRecord(message, failAt, quc, dmc, noQu,
                           dm3_handle_scene(dmc, message.note, failAt), {})
                  ELSE IF mixer = QU /\ qu5_service
                  THEN DispatchRecord(message, failAt, quc, dmc,
                           qu5_handle_scene(quc, message.note, mixer_midi_channel, failAt),
                           noDm, {})
                  ELSE DispatchRecord(message, failAt, quc, dmc, noQu, noDm, {})
             ELSE DispatchRecord(message, failAt, quc, dmc, noQu, noDm, {})
        ELSE IF message.channel = 2
        THEN IF mixer = DM3 /\ dm3_service
             THEN DispatchRecord(message, failAt, quc, dmc, noQu,
                      dm3_handle_mute(dmc, message.note,
                                      effective_velocity(message), failAt), {})
             ELSE IF mixer = QU /\ qu5_service
             THEN DispatchRecord(message, failAt, quc, dmc,
                      qu5_handle_mute(quc, message.note, effective_velocity(message),
                                      mixer_midi_channel, failAt),
                      noDm, {})
             ELSE DispatchRecord(message, failAt, quc, dmc, noQu, noDm, {})
        ELSE DispatchRecord(message, failAt, quc, dmc, noQu, noDm, {"unhandled_channel"})

handle_midi_message(message, quc, dmc, failAt) ==
    LET mixer == mixer_var
        mixer_midi_channel == midi_channel_var
        noQu == Silent(quc)
        noDm == OscSilent(dmc)
    IN  IF message.type \notin {NOTE_ON_TYPE, NOTE_OFF_TYPE}
        THEN DispatchRecord(message, failAt, quc, dmc, noQu, noDm, {})
        ELSE IF message.channel = 0
        THEN IF message.type = NOTE_ON_TYPE /\ message.velocity > 0
                /\ mixer = QU /\ qu5_service
             THEN DispatchRecord(message, failAt, quc, dmc,
                      qu5_handle_softkey(quc, message.note, mixer_midi_channel, failAt),
                      noDm, {})
             ELSE DispatchRecord(message, failAt, quc, dmc, noQu, noDm, {})
        ELSE IF message.channel = 1
        THEN IF message.type = NOTE_ON_TYPE /\ message.velocity > 0
             THEN IF mixer = DM3 /\ dm3_service
                  THEN DispatchRecord(message, failAt, quc, dmc, noQu,
                           dm3_handle_scene(dmc, message.note, failAt), {})
                  ELSE IF mixer = QU /\ qu5_service
                  THEN DispatchRecord(message, failAt, quc, dmc,
                           qu5_handle_scene(quc, message.note, mixer_midi_channel, failAt),
                           noDm, {})
                  ELSE DispatchRecord(message, failAt, quc, dmc, noQu, noDm, {})
             ELSE DispatchRecord(message, failAt, quc, dmc, noQu, noDm, {})
        ELSE IF message.channel = 2
        THEN IF mixer = DM3 /\ dm3_service
             THEN DispatchRecord(message, failAt, quc, dmc, noQu,
                      dm3_handle_mute(dmc, message.note,
                                      effective_velocity(message), failAt), {})
             ELSE IF mixer = QU /\ qu5_service
             THEN DispatchRecord(message, failAt, quc, dmc,
                      qu5_handle_mute(quc, message.note, effective_velocity(message),
                                      mixer_midi_channel, failAt),
                      noDm, {})
             ELSE DispatchRecord(message, failAt, quc, dmc, noQu, noDm, {})
        ELSE DispatchRecord(message, failAt, quc, dmc, noQu, noDm, {"unhandled_channel"})

(***************************************************************************)
(* MidiBackend.process_queued_messages: hands up to max_messages queued    *)
(* messages to the handler, in queue order.  fails[i] is the failAt of the *)
(* i-th message.                                                           *)
(***************************************************************************)
\* A loop that runs until the queue is empty, whatever the limit.
Min_left(a, b) == a

Min(a, b) == IF a <= b THEN a ELSE b

RECURSIVE process_batch(_, _, _, _, _)
process_batch(batch, fails, quc, dmc, log) ==
    \* while processed < max_messages ... except Empty: break
    IF Len(log) >= max_messages \/ batch = << >>
    THEN [quc |-> quc, dmc |-> dmc, log |-> log]
    ELSE IF Len(batch) = 1
    \* one pass of the loop body; r is the record of the handler call
    THEN CHOOSE out \in
             {[quc |-> r.quc, dmc |-> r.dmc, log |-> Append(log, r)] :
                  r \in {handle_midi_message(batch[1], quc, dmc, fails[1])}} : TRUE
    \* the passes for the first half of the batch, then those for the rest
    ELSE LET h == Len(batch) \div 2
         IN  CHOOSE out \in
                 {process_batch(SubSeq(batch, h + 1, Len(batch)),
                                SubSeq(fails, h + 1, Len(fails)),
                                a.quc, a.dmc, a.log) :
                      a \in {process_batch(SubSeq(batch, 1, h), SubSeq(fails, 1, h),
                                           quc, dmc, log)}} : TRUE

\* What one handler call put on the transport: the MIDI messages written to
\* the socket or the OSC messages handed to the client.
Sent(r) == IF r.tx # << >> THEN r.tx ELSE r.osc

\* The k-th send of the i-th handler call of a tick, for every send made.
WireSlots(log) ==
    UNION {{<< i, k >> : k \in 1..Len(Sent(log[i]))} : i \in 1..Len(log)}

\* The transport of a tick if the handler calls overlapped: the k-th sends of
\* all events go out before any (k+1)-th send.
Wire_two_in_progress(log) ==
    LET slots == WireSlots(log)
        before(p, q) == p[2] < q[2] \/ (p[2] = q[2] /\ p[1] <= q[1])
        rank(p) == Cardinality({q \in slots : before(q, p)})
    IN  [n \in 1..Cardinality(slots) |->
            LET p == CHOOSE q \in slots : rank(q) = n
            IN  [event |-> p[1], message |-> Sent(log[p[1]])[p[2]]]]

\* The transport of a tick: process_queued_messages calls the handler for one
\* event at a time on the Tk thread and every send is made inside that call,
\* so the sends of event i precede those of event i+1.
Wire(log) ==
    LET slots == WireSlots(log)
        before(p, q) == p[1] < q[1] \/ (p[1] = q[1] /\ p[2] <= q[2])
        rank(p) == Cardinality({q \in slots : before(q, p)})
    IN  [n \in 1..Cardinality(slots) |->
            LET p == CHOOSE q \in slots : rank(q) = n
            IN  [event |-> p[1], message |-> Sent(log[p[1]])[p[2]]]]

\* The number of the failing send within one handler call: 0 for none, else
\* 1..4 (the longest sequence one event sends is the four NRPN messages).
FailPoints == 0..Len(nrpn_sequence(1, 0, 0))

(***************************************************************************)
(* Monitor threads.  A thread is at "loop" (about to test the while        *)
(* condition), in "sleep" (inside time.sleep(3)), or absent ("none").      *)
(***************************************************************************)
MonitorIds == 1..MaxMonitors
NoMonitor == [stale |-> FALSE, pc |-> "none", failures |-> 0]
NoMonitors == [i \in MonitorIds |-> NoMonitor]
Live(ms) == {i \in MonitorIds : ms[i].pc # "none"}
FreeSlot(ms) == CHOOSE i \in MonitorIds \ Live(ms) :
                    \A j \in MonitorIds \ Live(ms) : i <= j

\* Qu5MIDIService has no connection monitor: connect, _connect_tcp_midi and
\* _connect_usb_midi start no thread.
qu5_monitors == {}

\* DM3OSCService.start_connection_monitor on the fields (active, ms).
start_connection_monitor(active, ms) ==
    IF active
    THEN [active |-> TRUE, monitors |-> ms]
    ELSE [active |-> TRUE,
          monitors |-> [ms EXCEPT ![FreeSlot(ms)] =
                           [stale |-> FALSE, pc |-> "loop", failures |-> 0]]]

\* No ping has been run on the service object; ping_host has not been called.
NoProbe == [time |-> 0, result |-> FALSE, run |-> FALSE]
NoCall == [called |-> FALSE, probed |-> FALSE, ret |-> FALSE]

\* connect() has not been called on a connected service.
NoConnectCall == [called |-> FALSE, mixer |-> "", ret |-> FALSE]

\* ping_host with the clock explicit: `now` is time.time() at the call, `last`
\* is _last_ping_time, `probe` the outcome of the ping command if it is run.
ping_host_at(now, last, probe) ==
    IF now - last < ping_interval
    THEN [ret |-> TRUE, probed |-> FALSE, last |-> last]
    ELSE [ret |-> probe, probed |-> TRUE, last |-> IF probe THEN now ELSE last]

\* ping_host: a probe is run only when the cache is stale; `probe` is its result.
ping_host(fresh, probe) == [success |-> fresh \/ probe, fresh |-> fresh \/ probe]

(***************************************************************************)
(* Initial state: MidiController() constructed, initialize() not yet run.  *)
(***************************************************************************)
Init ==
    /\ initialized = FALSE
    /\ virtual_port_active = FALSE
    /\ mixer_var = DM3
    /\ midi_channel_var = 1
    /\ use_tcp_midi_var = TRUE
    /\ is_connected = FALSE
    /\ is_monitoring = FALSE
    /\ qu5_service = FALSE
    /\ qu5_mixer_name = ""
    /\ use_tcp_midi = TRUE
    /\ qu5_socket = "none"
    /\ qu5_connected = FALSE
    /\ qu5_ping_fresh = FALSE
    /\ dm3_service = FALSE
    /\ dm3_mixer_name = ""
    /\ dm3_client = FALSE
    /\ dm3_connected = FALSE
    /\ dm3_ping_fresh = FALSE
    /\ connection_monitor_active = FALSE
    /\ monitors = NoMonitors
    /\ message_queue = << >>
    /\ tickLog = << >>
    /\ current_time = ping_interval
    /\ last_ping_time = 0
    /\ last_probe = NoProbe
    /\ ping_call = NoCall
    /\ connect_call = NoConnectCall
    /\ shutdown_completed = FALSE
    /\ port_thread = "none"
    /\ connection_lock = [dm3 |-> "none", qu5 |-> "none"]
    /\ control_pc = "idle"
    /\ logger_lock = 0

\* MidiController.initialize: create_virtual_ports returns with the port active.
Initialize ==
    /\ ~initialized
    /\ initialized' = TRUE
    /\ virtual_port_active' = TRUE
    /\ UNCHANGED callVars
    /\ tickLog' = << >>
    /\ UNCHANGED << viewVars, is_monitoring, qu5Vars, dm3Vars, message_queue >>

(***************************************************************************)
(* View edits.  set_connection_state(True) disables the mixer dropdown,    *)
(* the connection frame and the channel spinbox.                           *)
(***************************************************************************)
\* _on_mixer_changed reached while connected: set_connection_state does not
\* disable mixer_dropdown.
OnMixerChanged_while_connected(mixer_name) ==
    /\ initialized
    /\ mixer_var' = mixer_name
    /\ dm3_mixer_name' = IF dm3_service THEN mixer_name ELSE dm3_mixer_name
    /\ qu5_mixer_name' = IF qu5_service THEN mixer_name ELSE qu5_mixer_name
    /\ UNCHANGED callVars
    /\ tickLog' = << >>
    /\ UNCHANGED << initialized, virtual_port_active, midi_channel_var,
                    use_tcp_midi_var, is_connected, is_monitoring,
                    qu5_service, use_tcp_midi, qu5_socket, qu5_connected,
                    qu5_ping_fresh, dm3_service, dm3_client, dm3_connected,
                    dm3_ping_fresh, connection_monitor_active, monitors,
                    message_queue >>

\* view._on_mixer_selected -> MidiController._on_mixer_changed
OnMixerChanged(mixer_name) ==
    /\ initialized /\ ~is_connected
    /\ mixer_var' = mixer_name
    /\ dm3_mixer_name' = IF dm3_service THEN mixer_name ELSE dm3_mixer_name
    /\ qu5_mixer_name' = IF qu5_service THEN mixer_name ELSE qu5_mixer_name
    /\ UNCHANGED callVars
    /\ tickLog' = << >>
    /\ UNCHANGED << initialized, virtual_port_active, midi_channel_var,
                    use_tcp_midi_var, is_connected, is_monitoring,
                    qu5_service, use_tcp_midi, qu5_socket, qu5_connected,
                    qu5_ping_fresh, dm3_service, dm3_client, dm3_connected,
                    dm3_ping_fresh, connection_monitor_active, monitors,
                    message_queue >>

SetMidiChannel(c) ==
    /\ initialized /\ ~is_connected /\ mixer_var = QU
    /\ midi_channel_var' = c
    /\ UNCHANGED callVars
    /\ tickLog' = << >>
    /\ UNCHANGED << initialized, virtual_port_active, mixer_var, use_tcp_midi_var,
                    is_connected, is_monitoring, qu5Vars, dm3Vars, message_queue >>

ToggleTcpMidi ==
    /\ initialized /\ ~is_connected /\ mixer_var = QU
    /\ use_tcp_midi_var' = ~use_tcp_midi_var
    /\ UNCHANGED callVars
    /\ tickLog' = << >>
    /\ UNCHANGED << initialized, virtual_port_active, mixer_var, midi_channel_var,
                    is_connected, is_monitoring, qu5Vars, dm3Vars, message_queue >>

(***************************************************************************)
(* Connect and disconnect.  The services are handled as records of their   *)
(* fields.                                                                 *)
(***************************************************************************)
Dm3Fields ==
    [service |-> dm3_service, name |-> dm3_mixer_name, client |-> dm3_client,
     connected |-> dm3_connected, fresh |-> dm3_ping_fresh,
     active |-> connection_monitor_active, monitors |-> monitors]
Qu5Fields ==
    [service |-> qu5_service, name |-> qu5_mixer_name, tcp |-> use_tcp_midi,
     socket |-> qu5_socket, connected |-> qu5_connected, fresh |-> qu5_ping_fresh]

\* DM3OSCService.__init__ / Qu5MIDIService.__init__ + set_connection_params.
\* A new object has no monitor thread; threads of a replaced object keep
\* running on the replaced object's fields and are no longer tracked.
NewDm3(mixer_name) ==
    [service |-> TRUE, name |-> mixer_name, client |-> FALSE, connected |-> FALSE,
     fresh |-> FALSE, active |-> FALSE, monitors |-> NoMonitors]
NewQu5(mixer_name) ==
    [service |-> TRUE, name |-> mixer_name, tcp |-> use_tcp_midi_var,
     socket |-> "none", connected |-> FALSE, fresh |-> FALSE]

\* connect without the `if self.dm3_connected: return True` at its head.
dm3_connect_no_early_return(D, probe) ==
    LET ping == ping_host(D.fresh, probe)
    IN  IF ~ping.success
        THEN [ret |-> FALSE,
              D |-> [D EXCEPT !.client = FALSE, !.connected = FALSE,
                              !.fresh = ping.fresh]]
        ELSE LET m == start_connection_monitor(D.active, D.monitors)
             IN  [ret |-> TRUE,
                  D |-> [D EXCEPT !.client = TRUE, !.connected = TRUE,
                                  !.fresh = ping.fresh, !.active = m.active,
                                  !.monitors = m.monitors]]

\* DM3OSCService.connect; `probe` is the result of the ping, if one is run.
dm3_connect(D, probe) ==
    IF D.connected THEN [ret |-> TRUE, D |-> D]
    ELSE LET ping == ping_host(D.fresh, probe)
         IN  IF ~ping.success
             THEN [ret |-> FALSE,
                   D |-> [D EXCEPT !.client = FALSE, !.connected = FALSE,
                                   !.fresh = ping.fresh]]
             ELSE LET m == start_connection_monitor(D.active, D.monitors)
                  IN  [ret |-> TRUE,
                       D |-> [D EXCEPT !.client = TRUE, !.connected = TRUE,
                                       !.fresh = ping.fresh, !.active = m.active,
                                       !.monitors = m.monitors]]


\* _connect_tcp_midi without the close in its except branch: a socket whose
\* connect raised stays attached.
connect_tcp_midi_leaves_socket(Q, probe, portOk, connectOk) ==
    LET ping == ping_host(Q.fresh, probe)
    IN  IF ping.success /\ portOk /\ connectOk
        THEN [ret |-> TRUE,
              Q |-> [Q EXCEPT !.socket = "open", !.connected = TRUE,
                              !.fresh = ping.fresh]]
        ELSE [ret |-> FALSE,
              Q |-> [Q EXCEPT !.socket = IF ping.success /\ portOk
                                        THEN "open" ELSE Q.socket,
                              !.connected = FALSE, !.fresh = ping.fresh]]

\* Qu5MIDIService._connect_tcp_midi; portOk: connect_ex returned 0,
\* connectOk: socket.connect did not raise.
connect_tcp_midi(Q, probe, portOk, connectOk) ==
    LET ping == ping_host(Q.fresh, probe)
    IN  IF ping.success /\ portOk /\ connectOk
        THEN [ret |-> TRUE,
              Q |-> [Q EXCEPT !.socket = "open", !.connected = TRUE,
                              !.fresh = ping.fresh]]
        ELSE [ret |-> FALSE,
              Q |-> [Q EXCEPT !.socket = "none", !.connected = FALSE,
                              !.fresh = ping.fresh]]

connect_usb_midi(Q) == [ret |-> TRUE, Q |-> [Q EXCEPT !.connected = TRUE]]

\* Qu5MIDIService.connect
qu5_connect(Q, probe, portOk, connectOk) ==
    IF Q.connected THEN [ret |-> TRUE, Q |-> Q]
    ELSE IF Q.tcp THEN connect_tcp_midi(Q, probe, portOk, connectOk)
    ELSE connect_usb_midi(Q)

\* MidiBackend.start_monitoring: _midi_thread is never set.
start_monitoring == virtual_port_active

\* MidiController._on_connect (view._on_connect_toggle while not connected).
OnConnect(probe, portOk, connectOk) ==
    /\ initialized /\ ~is_connected
    /\ LET mixer == mixer_var
           needInit == ~dm3_service \/ ~qu5_service
           D0 == IF needInit /\ mixer = DM3 THEN NewDm3(mixer) ELSE Dm3Fields
           Q0 == IF needInit /\ mixer = QU THEN NewQu5(mixer) ELSE Qu5Fields
           dc == IF mixer = DM3 THEN dm3_connect(D0, probe)
                 ELSE [ret |-> FALSE, D |-> D0]
           qc == IF mixer = QU THEN qu5_connect(Q0, probe, portOk, connectOk)
                 ELSE [ret |-> FALSE, Q |-> Q0]
           connection_success == IF mixer = DM3 THEN dc.ret ELSE qc.ret
           monitoring == connection_success /\ start_monitoring
       IN  \* cap on threads: a thread is started only into a free slot
           /\ (mixer = DM3 /\ ~D0.connected /\ ~D0.active)
                  => Live(D0.monitors) # MonitorIds
           /\ dm3_service' = dc.D.service
           /\ dm3_mixer_name' = dc.D.name
           /\ dm3_client' = dc.D.client
           /\ dm3_connected' = dc.D.connected
           /\ dm3_ping_fresh' = dc.D.fresh
           /\ connection_monitor_active' = dc.D.active
           /\ monitors' = dc.D.monitors
           /\ qu5_service' = qc.Q.service
           /\ qu5_mixer_name' = qc.Q.name
           /\ use_tcp_midi' = qc.Q.tcp
           /\ qu5_socket' = qc.Q.socket
           /\ qu5_connected' = qc.Q.connected
           /\ qu5_ping_fresh' = qc.Q.fresh
           /\ is_monitoring' = (is_monitoring \/ monitoring)
           /\ is_connected' = (is_connected \/ monitoring)
    /\ UNCHANGED callVars
    /\ tickLog' = << >>
    /\ UNCHANGED << initialized, virtual_port_active, mixer_var, midi_channel_var,
                    use_tcp_midi_var, message_queue >>

\* DM3OSCService.disconnect on the fields; `done` are the monitor threads that
\* end while stop_connection_monitor waits in join(timeout=2.0), `probed`
\* says whether one of them ran a successful ping before it ended.
dm3_disconnect(D, done, probed) ==
    [D EXCEPT !.active = FALSE,
              !.monitors = [i \in MonitorIds |->
                               IF i \in done \/ D.monitors[i].pc = "none"
                               THEN NoMonitor
                               ELSE [D.monitors[i] EXCEPT !.stale = TRUE]],
              !.fresh = D.fresh \/ probed,
              !.client = FALSE, !.connected = FALSE]

\* disconnect without `self.qu5_socket.close()` and `self.qu5_socket = None`.
qu5_disconnect_keeps_socket(Q) == [Q EXCEPT !.connected = FALSE]

\* Qu5MIDIService.disconnect on the fields.
qu5_disconnect(Q) == [Q EXCEPT !.socket = "none", !.connected = FALSE]

\* MidiController._on_disconnect (view._on_connect_toggle while connected).
OnDisconnect(done, probed) ==
    /\ initialized /\ is_connected
    /\ done \subseteq Live(monitors)
    /\ probed => \E i \in done : monitors[i].pc = "sleep"
    /\ (done # {} \/ probed) => dm3_service
    /\ LET D == IF dm3_service THEN dm3_disconnect(Dm3Fields, done, probed)
                ELSE Dm3Fields
           Q == IF qu5_service THEN qu5_disconnect(Qu5Fields) ELSE Qu5Fields
       IN  /\ dm3_client' = D.client
           /\ dm3_connected' = D.connected
           /\ dm3_ping_fresh' = D.fresh
           /\ connection_monitor_active' = D.active
           /\ monitors' = D.monitors
           /\ qu5_socket' = Q.socket
           /\ qu5_connected' = Q.connected
    /\ is_monitoring' = FALSE
    /\ is_connected' = FALSE
    /\ UNCHANGED callVars
    /\ tickLog' = << >>
    /\ UNCHANGED << initialized, virtual_port_active, mixer_var, midi_channel_var,
                    use_tcp_midi_var, qu5_service, qu5_mixer_name, use_tcp_midi,
                    qu5_ping_fresh, dm3_service, dm3_mixer_name, message_queue >>

(***************************************************************************)
(* DM3OSCService.connection_monitor, one thread i.                         *)
(***************************************************************************)
\* The while condition.
MonitorLoop(i) ==
    /\ monitors[i].pc = "loop"
    /\ monitors' = [monitors EXCEPT ![i] =
           IF connection_monitor_active /\ dm3_connected
           THEN [stale |-> monitors[i].stale, pc |-> "sleep", failures |-> monitors[i].failures]
           ELSE NoMonitor]
    /\ UNCHANGED callVars
    /\ tickLog' = << >>
    /\ UNCHANGED << initialized, virtual_port_active, viewVars, is_monitoring,
                    qu5Vars, dm3_service, dm3_mixer_name, dm3_client,
                    dm3_connected, dm3_ping_fresh, connection_monitor_active,
                    message_queue >>

\* The loop body without `consecutive_failures = 0` after a successful ping.
MonitorProbe_no_reset(i, probe) ==
    /\ monitors[i].pc = "sleep"
    /\ IF ~dm3_connected
       THEN /\ monitors' = [monitors EXCEPT ![i] = NoMonitor]
            /\ UNCHANGED << dm3_connected, dm3_client, dm3_ping_fresh >>
       ELSE LET ping == ping_host(dm3_ping_fresh, probe)
                consecutive_failures ==
                    IF ping.success THEN monitors[i].failures
                    ELSE monitors[i].failures + 1
                failed == consecutive_failures >= max_failures
            IN  /\ dm3_ping_fresh' = ping.fresh
                /\ dm3_connected' = (dm3_connected /\ ~failed)
                /\ dm3_client' = (dm3_client /\ ~failed)
                /\ monitors' = [monitors EXCEPT ![i] =
                       IF failed THEN NoMonitor
                       ELSE [stale |-> monitors[i].stale, pc |-> "loop", failures |-> consecutive_failures]]
    /\ UNCHANGED callVars
    /\ tickLog' = << >>
    /\ UNCHANGED << initialized, virtual_port_active, viewVars, is_monitoring,
                    qu5Vars, dm3_service, dm3_mixer_name,
                    connection_monitor_active, message_queue >>

\* After the sleep: the connected test, the ping and the failure count.
MonitorProbe(i, probe) ==
    /\ monitors[i].pc = "sleep"
    /\ IF ~dm3_connected
       THEN /\ monitors' = [monitors EXCEPT ![i] = NoMonitor]
            /\ UNCHANGED << dm3_connected, dm3_client, dm3_ping_fresh >>
       ELSE LET ping == ping_host(dm3_ping_fresh, probe)
                consecutive_failures ==
                    IF ping.success THEN 0 ELSE monitors[i].failures + 1
                failed == consecutive_failures >= max_failures
            IN  /\ dm3_ping_fresh' = ping.fresh
                /\ dm3_connected' = (dm3_connected /\ ~failed)
                /\ dm3_client' = (dm3_client /\ ~failed)
                /\ monitors' = [monitors EXCEPT ![i] =
                       IF failed THEN NoMonitor
                       ELSE [stale |-> monitors[i].stale, pc |-> "loop", failures |-> consecutive_failures]]
    /\ UNCHANGED callVars
    /\ tickLog' = << >>
    /\ UNCHANGED << initialized, virtual_port_active, viewVars, is_monitoring,
                    qu5Vars, dm3_service, dm3_mixer_name,
                    connection_monitor_active, message_queue >>

\* _ping_interval (3 s) has passed since the last successful ping.
PingCacheExpires ==
    /\ qu5_ping_fresh \/ dm3_ping_fresh
    /\ \E q \in {FALSE, qu5_ping_fresh}, d \in {FALSE, dm3_ping_fresh} :
          /\ << q, d >> # << qu5_ping_fresh, dm3_ping_fresh >>
          /\ qu5_ping_fresh' = q
          /\ dm3_ping_fresh' = d
    /\ UNCHANGED callVars
    /\ tickLog' = << >>
    /\ UNCHANGED << initialized, virtual_port_active, viewVars, is_monitoring,
                    qu5_service, qu5_mixer_name, use_tcp_midi, qu5_socket,
                    qu5_connected, dm3_service, dm3_mixer_name, dm3_client,
                    dm3_connected, connection_monitor_active, monitors,
                    message_queue >>

(***************************************************************************)
(* Receive callback and dispatch tick.                                     *)
(***************************************************************************)
\* MidiBackend.__init__: Queue() is Queue(maxsize=0), a queue without capacity.
queue_maxsize == 0

\* Queue.put_nowait: Full is raised only if 0 < maxsize <= qsize; the callback
\* logs a warning and skips the message then.
put_nowait(queue, message) ==
    IF queue_maxsize > 0 /\ Len(queue) >= queue_maxsize
    THEN queue
    ELSE Append(queue, message)

\* A callback that enqueues with a blocking hand-over: it waits until the
\* dispatch loop has taken the previous event.
VirtualMidiCallback_waits(message) ==
    /\ virtual_port_active
    /\ message_queue = << >>
    /\ message_queue' = put_nowait(message_queue, message)
    /\ UNCHANGED callVars
    /\ tickLog' = << >>
    /\ UNCHANGED << initialized, virtual_port_active, viewVars, is_monitoring,
                    qu5Vars, dm3Vars >>

\* MidiBackend._virtual_midi_callback (rtmidi thread).
VirtualMidiCallback(message) ==
    /\ virtual_port_active
    /\ message_queue' = put_nowait(message_queue, message)
    /\ UNCHANGED callVars
    /\ tickLog' = << >>
    /\ UNCHANGED << initialized, virtual_port_active, viewVars, is_monitoring,
                    qu5Vars, dm3Vars >>

\* A tick whose loop ends at the first event with a failed send and discards
\* the rest of its batch.
Update_abort_on_error(fails) ==
    /\ initialized /\ is_monitoring
    /\ LET n == Min(Len(message_queue), max_messages)
           r == process_batch(SubSeq(message_queue, 1, n), fails,
                              qu5_connected, dm3_connected, << >>)
           bad == {i \in 1..n : r.log[i].failAt # 0}
           k == IF bad = {} THEN n ELSE CHOOSE i \in bad : \A j \in bad : i <= j
       IN  /\ Len(fails) = n
           /\ message_queue' = SubSeq(message_queue, n + 1, Len(message_queue))
           /\ qu5_connected' = IF k = 0 THEN qu5_connected ELSE r.log[k].quc
           /\ dm3_connected' = IF k = 0 THEN dm3_connected ELSE r.log[k].dmc
           /\ UNCHANGED callVars
           /\ tickLog' = SubSeq(r.log, 1, k)
    /\ UNCHANGED << initialized, virtual_port_active, viewVars, is_monitoring,
                    qu5_service, qu5_mixer_name, use_tcp_midi, qu5_socket,
                    qu5_ping_fresh, dm3_service, dm3_mixer_name, dm3_client,
                    dm3_ping_fresh, connection_monitor_active, monitors >>

\* A tick that takes the newest event first (a LIFO queue).
Update_newest_first(fails) ==
    /\ initialized /\ is_monitoring
    /\ LET n == Min(Len(message_queue), max_messages)
           len == Len(message_queue)
           r == process_batch([i \in 1..n |-> message_queue[len - i + 1]], fails,
                              qu5_connected, dm3_connected, << >>)
       IN  /\ Len(fails) = n
           /\ message_queue' = SubSeq(message_queue, 1, len - n)
           /\ qu5_connected' = r.quc
           /\ dm3_connected' = r.dmc
           /\ UNCHANGED callVars
           /\ tickLog' = r.log
    /\ UNCHANGED << initialized, virtual_port_active, viewVars, is_monitoring,
                    qu5_service, qu5_mixer_name, use_tcp_midi, qu5_socket,
                    qu5_ping_fresh, dm3_service, dm3_mixer_name, dm3_client,
                    dm3_ping_fresh, connection_monitor_active, monitors >>

\* view._schedule_update -> MidiController.update ->
\* MidiBackend.process_queued_messages.
Update(fails) ==
    /\ initialized /\ is_monitoring
    /\ LET n == Min(Len(message_queue), max_messages)
           r == process_batch(SubSeq(message_queue, 1, n), fails,
                              qu5_connected, dm3_connected, << >>)
       IN  /\ Len(fails) = n
           /\ message_queue' = SubSeq(message_queue, n + 1, Len(message_queue))
           /\ qu5_connected' = r.quc
           /\ dm3_connected' = r.dmc
           /\ UNCHANGED callVars
           /\ tickLog' = r.log
    /\ UNCHANGED << initialized, virtual_port_active, viewVars, is_monitoring,
                    qu5_service, qu5_mixer_name, use_tcp_midi, qu5_socket,
                    qu5_ping_fresh, dm3_service, dm3_mixer_name, dm3_client,
                    dm3_ping_fresh, connection_monitor_active, monitors >>

FailChoices == UNION {[1..n -> FailPoints] : n \in 0..MaxQueue}

\* Everything but the connect request and the receive callback.
Background ==
    \/ Initialize
    \/ \E m \in Mixers : OnMixerChanged(m)
    \/ \E c \in MidiChannels : SetMidiChannel(c)
    \/ ToggleTcpMidi
    \/ \E done \in SUBSET MonitorIds, probed \in BOOLEAN : OnDisconnect(done, probed)
    \/ \E i \in MonitorIds : MonitorLoop(i)
    \/ \E i \in MonitorIds, probe \in BOOLEAN : MonitorProbe(i, probe)
    \/ PingCacheExpires
    \/ \E fails \in FailChoices : Update(fails)

\* Everything but the receive callback.
Control ==
    \/ Background
    \/ \E probe, portOk, connectOk \in BOOLEAN : OnConnect(probe, portOk, connectOk)

\* The source sends bursts of at most MaxQueue events between two ticks.
Receive(message) ==
    /\ Len(message_queue) < MaxQueue
    /\ VirtualMidiCallback(message)

\* The system with bursts of events between two ticks.
Next ==
    \/ Control
    \/ \E message \in QueueEvents : Receive(message)

Spec == Init /\ [][Next]_vars

\* The source sends the next event after the previous one was dispatched;
\* the events range over all of Events.
ReceiveOne(message) ==
    /\ message_queue = << >>
    /\ VirtualMidiCallback(message)

\* A connect request made after the monitor threads of the earlier sessions
\* have ended.
ConnectFresh(probe, portOk, connectOk) ==
    /\ Live(monitors) = {}
    /\ OnConnect(probe, portOk, connectOk)

AdapterNext ==
    \/ Background
    \/ \E probe, portOk, connectOk \in BOOLEAN : ConnectFresh(probe, portOk, connectOk)
    \/ \E message \in Events : ReceiveOne(message)

AdapterSpec == Init /\ [][AdapterNext]_vars

\* The events of the monitor specification: one mute event, routed to the
\* selected mixer.
MonitorEvents ==
    {[type |-> NOTE_ON_TYPE, channel |-> 2, note |-> 0, velocity |-> 100]}

\* The monitor threads of several sessions with one event in flight.
MonitorNext ==
    \/ Control
    \/ \E message \in MonitorEvents : ReceiveOne(message)

MonitorSpec == Init /\ [][MonitorNext]_vars

\* Scheduling: the view reschedules the tick every 10 ms and the monitor
\* threads are scheduled by the system; the operator and the MIDI source are
\* under no obligation to act.
MonitorFairness ==
    /\ WF_vars(\E fails \in FailChoices : Update(fails))
    /\ \A i \in MonitorIds :
          /\ WF_vars(MonitorLoop(i))
          /\ WF_vars(\E probe \in BOOLEAN : MonitorProbe(i, probe))

MonitorFairSpec == MonitorSpec /\ MonitorFairness

\* Bursts of events, connect requests as in AdapterNext.
QueueNext ==
    \/ Background
    \/ \E probe, portOk, connectOk \in BOOLEAN : ConnectFresh(probe, portOk, connectOk)
    \/ \E message \in QueueEvents : Receive(message)

QueueSpec == Init /\ [][QueueNext]_vars

\* _schedule_update re-arms itself with root.after(10, ...) after every call,
\* also when the update callback raised: the tick keeps running.
QueueFairness == WF_vars(\E fails \in FailChoices : Update(fails))

QueueFairSpec == QueueSpec /\ QueueFairness

\* The source sends a long burst: max_messages mute events, then an unmute,
\* then scene recalls.
BurstEvent(queue) ==
    IF Len(queue) < max_messages
    THEN [type |-> NOTE_ON_TYPE, channel |-> 2, note |-> 0, velocity |-> 100]
    ELSE IF Len(queue) = max_messages
    THEN [type |-> NOTE_OFF_TYPE, channel |-> 2, note |-> 0, velocity |-> 0]
    ELSE [type |-> NOTE_ON_TYPE, channel |-> 1, note |-> 0, velocity |-> 100]

BurstReceive ==
    /\ Len(message_queue) < MaxBurst
    /\ VirtualMidiCallback(BurstEvent(message_queue))

\* A tick in which every send succeeds.
BurstUpdate ==
    Update([i \in 1..Min(Len(message_queue), max_messages) |-> 0])

BurstNext ==
    \/ Initialize
    \/ \E probe, portOk, connectOk \in BOOLEAN : ConnectFresh(probe, portOk, connectOk)
    \/ BurstReceive
    \/ BurstUpdate

BurstSpec == Init /\ [][BurstNext]_vars

(***************************************************************************)
(* Properties of the dispatch records of one tick.                         *)
(***************************************************************************)
Records == {tickLog[i] : i \in 1..Len(tickLog)}

IsNote(r, type, channel) == r.msg.type = type /\ r.msg.channel = channel
IsMuteEvent(r) ==
    r.msg.type \in {NOTE_ON_TYPE, NOTE_OFF_TYPE} /\ r.msg.channel = 2

\* The Qu mixer is selected and its TCP session is up when the handler runs.
QuSession(r) == r.mixer = QU /\ r.tcp /\ r.quc_before
\* The DM3 mixer is selected and its OSC session is up when the handler runs.
Dm3Session(r) == r.mixer = DM3 /\ r.dmc_before

\* Status byte of a Control Change on the outgoing channel of record r.
CCStatus(r) == 176 + (r.midi_channel - 1)

\* The four Control Changes of an NRPN mute write, as bytes on the wire.
NrpnBytes(r, value) ==
    << << CCStatus(r), 99, 0 >>, << CCStatus(r), 98, r.msg.note >>,
       << CCStatus(r), 6, 0 >>, << CCStatus(r), 38, value >> >>

\* The values of the CC38 messages / of the Fader/On OSC messages of r.
CC38Values(r) ==
    {r.tx[j][3] : j \in {k \in 1..Len(r.tx) :
                           r.tx[k][1] \in 176..191 /\ r.tx[k][2] = 38}}
MutePayloads(r) ==
    {r.osc[j].value : j \in {k \in 1..Len(r.osc) : r.osc[k].address = MUTE_ADDRESS}}

\* C1: a NoteOn with velocity > 0 on incoming channel 2 with note n in 0..15,
\* handled while the Qu mixer is connected (TCP session up before and after
\* the handler), puts exactly CC99 = 0, CC98 = n, CC6 = 0, CC38 = 1 on the
\* wire, in this order, all on MIDI channel (configured channel - 1).
C1_NrpnMuteOn ==
    \A r \in Records :
        (/\ IsNote(r, NOTE_ON_TYPE, 2) /\ r.msg.velocity > 0
         /\ r.msg.note \in 0..15
         /\ QuSession(r) /\ r.quc)
        => r.tx = NrpnBytes(r, 1)

\* Channel 3 configured, NoteOn(channel 2, note 0, velocity 100): the four
\* Control Changes leave on MIDI channel 2 (0-based).
C1_Witness ==
    \E r \in Records :
        /\ r.msg = [type |-> NOTE_ON_TYPE, channel |-> 2, note |-> 0, velocity |-> 100]
        /\ QuSession(r) /\ r.quc /\ r.midi_channel = 3
        /\ r.tx = << << 178, 99, 0 >>, << 178, 98, 0 >>, << 178, 6, 0 >>,
                     << 178, 38, 1 >> >>

\* The mute value of a mute event: 1 for a NoteOn with velocity >= 1, else 0.
MuteValue(r) ==
    IF r.msg.type = NOTE_ON_TYPE /\ r.msg.velocity >= 1 THEN 1 ELSE 0

\* A mute event for a valid channel that reaches the Qu adapter's send loop.
QuMuteSent(r) == IsMuteEvent(r) /\ r.msg.note \in 0..15 /\ QuSession(r)

C3_NoteOffUnmutes ==
    \A r \in Records :
        IsNote(r, NOTE_OFF_TYPE, 2)
        => CC38Values(r) \subseteq {0} /\ MutePayloads(r) \subseteq {1}

\* A NoteOff with velocity 100 that sent CC38 = 0.
C3_Witness ==
    \E r \in Records :
        /\ IsNote(r, NOTE_OFF_TYPE, 2) /\ r.msg.velocity = 100
        /\ Len(r.tx) = 4 /\ r.tx[4][2] = 38 /\ r.tx[4][3] = 0

\* C4 as stated: every NoteOn on the mute channel, velocity 0 included, sends
\* the muted value (CC38 = 1 on Qu, payload 0 on DM3).
C4_EveryNoteOnMutes ==
    \A r \in Records :
        IsNote(r, NOTE_ON_TYPE, 2)
        => CC38Values(r) \subseteq {1} /\ MutePayloads(r) \subseteq {0}

\* C4 amended: a NoteOn with velocity > 0 on the mute channel sends the muted
\* value; a NoteOn with velocity 0 sends the unmuted value (CC38 = 0 on Qu,
\* payload 1 on DM3).
C4_NoteOnMutesByVelocity ==
    \A r \in Records :
        IsNote(r, NOTE_ON_TYPE, 2)
        => IF r.msg.velocity > 0
           THEN CC38Values(r) \subseteq {1} /\ MutePayloads(r) \subseteq {0}
           ELSE CC38Values(r) \subseteq {0} /\ MutePayloads(r) \subseteq {1}

\* A NoteOn with velocity 100 for channel 16 whose last Control Change is
\* CC38 = 1.
C4_Witness ==
    \E r \in Records :
        /\ IsNote(r, NOTE_ON_TYPE, 2) /\ r.msg.velocity = 100 /\ r.msg.note = 15
        /\ CC38Values(r) = {1}

\* A NoteOn with velocity > 0 on the given incoming channel.
IsPress(r, channel) == IsNote(r, NOTE_ON_TYPE, channel) /\ r.msg.velocity > 0

\* Status bytes of the other messages on the outgoing channel of record r.
PCStatus(r) == 192 + (r.midi_channel - 1)
NoteOnStatus(r) == 144 + (r.midi_channel - 1)
NoteOffStatus(r) == 128 + (r.midi_channel - 1)

\* C5: for every scene number s in 1..128 (NoteOn, velocity > 0, incoming
\* channel 1, note = s - 1) handled while the Qu mixer is connected, a Program
\* Change with program s - 1 is transmitted.
C5_SceneProgramChange ==
    \A r \in Records :
        (IsPress(r, 1) /\ r.msg.note + 1 \in 1..128 /\ QuSession(r) /\ r.quc)
        => \E j \in 1..Len(r.tx) : r.tx[j] = << PCStatus(r), r.msg.note >>

\* C6: a Qu scene recall transmits CC0 = 0, CC32 = 0 and then the Program
\* Change; a Program Change never leaves without the two Bank Selects
\* before it.
C6_BankSelectBeforeProgramChange ==
    \A r \in Records :
        (/\ IsPress(r, 1) /\ r.mixer = QU
         /\ \E j \in 1..Len(r.tx) : r.tx[j][1] \in 192..207)
        => /\ Len(r.tx) = 3
           /\ r.tx[1] = << CCStatus(r), 0, 0 >>
           /\ r.tx[2] = << CCStatus(r), 32, 0 >>
           /\ r.tx[3][1] = PCStatus(r)

\* The calls the range checks of C7 sit in: Qu5MIDIService.handle_scene and
\* handle_softkey (called whenever the Qu service exists and is selected) and
\* DM3OSCService.recall_scene_by_number (called by handle_scene of a
\* connected DM3 service), each with an index outside its bounds.
QuSceneOutOfRange(r) ==
    IsPress(r, 1) /\ r.mixer = QU /\ qu5_service /\ r.msg.note > 99
QuSoftKeyOutOfRange(r) ==
    IsPress(r, 0) /\ r.mixer = QU /\ qu5_service /\ r.msg.note > 7
Dm3SceneOutOfRange(r) ==
    IsPress(r, 1) /\ r.mixer = DM3 /\ dm3_service /\ r.dmc_before
       /\ r.msg.note > 99
NothingSent(r) == r.tx = << >> /\ r.osc = << >>
ConnectionUnchanged(r) == r.quc = r.quc_before /\ r.dmc = r.dmc_before

C8_MuteOutOfRangeDropped ==
    \A r \in Records :
        (IsMuteEvent(r) /\ r.msg.note > 15) => NothingSent(r)

\* C9: a soft-key press k in 0..11 (NoteOn, velocity > 0, incoming channel 0,
\* note k) handled while the Qu mixer is connected transmits NoteOn with
\* velocity 127 and then NoteOff with velocity 0, both at note 48 + k.
C9_SoftKeyPress ==
    \A r \in Records :
        (IsPress(r, 0) /\ r.msg.note \in 0..11 /\ QuSession(r) /\ r.quc)
        => r.tx = << << NoteOnStatus(r), 48 + r.msg.note, 127 >>,
                     << NoteOffStatus(r), 48 + r.msg.note, 0 >> >>

\* The Fader/On payload of a mute event: 0 (muted) for velocity >= 1, 1
\* (unmuted) for effective velocity 0.
Dm3Payload(r) ==
    IF r.msg.type = NOTE_ON_TYPE /\ r.msg.velocity >= 1 THEN 0 ELSE 1

\* C10: every mute event handled by the DM3 adapter carries payload 0 when
\* the intent is muted (velocity >= 1) and payload 1 when it is unmuted
\* (effective velocity 0); with the session up and the send not failing
\* exactly one such message is sent.
C10_Dm3MutePolarity ==
    \A r \in Records :
        (IsMuteEvent(r) /\ r.mixer = DM3)
        => /\ MutePayloads(r) \subseteq {Dm3Payload(r)}
           /\ (Dm3Session(r) /\ r.dmc)
              => /\ Len(r.osc) = 1
                 /\ r.osc[1].address = MUTE_ADDRESS
                 /\ r.osc[1].value = Dm3Payload(r)

\* NoteOn(channel 2, note 0, velocity 100) on a connected DM3: payload 0 to
\* input channel 1.
C10_Witness ==
    \E r \in Records :
        /\ r.msg = [type |-> NOTE_ON_TYPE, channel |-> 2, note |-> 0, velocity |-> 100]
        /\ Dm3Session(r)
        /\ r.osc = << [address |-> MUTE_ADDRESS, slot |-> 1, name |-> "",
                       value |-> 0] >>

\* C11: a NoteOn with velocity > 0 on incoming channel 1 with note n, handled
\* while DM3 is connected (session up before and after the handler), sends
\* exactly one OSC message /yosc:req/ssrecall_ex ("scene_a", n) when n is in
\* 0..99 and sends nothing when n > 99.
C11_Dm3SceneRecall ==
    \A r \in Records :
        (IsPress(r, 1) /\ Dm3Session(r) /\ r.dmc)
        => /\ r.tx = << >>
           /\ r.osc = IF r.msg.note \in 0..99
                      THEN << [address |-> "/yosc:req/ssrecall_ex", slot |-> 0,
                               name |-> "scene_a", value |-> r.msg.note] >>
                      ELSE << >>

\* NoteOn(channel 1, note 99, velocity 100) on a connected DM3 recalls
\* scene_a 99.
C11_Witness ==
    \E r \in Records :
        /\ IsPress(r, 1) /\ Dm3Session(r) /\ r.msg.note = 99
        /\ Len(r.osc) = 1 /\ r.osc[1].address = SCENE_ADDRESS
        /\ r.osc[1].name = "scene_a" /\ r.osc[1].value = 99

(***************************************************************************)
(* Properties of the health monitor.                                       *)
(***************************************************************************)
\* Monitor thread i wakes on a connected service and probes; the probe fails
\* when the ping cache is stale and the ping gets no answer.
ProbeFails(probe) == ~dm3_ping_fresh /\ ~probe

\* C12: a monitor thread moves the connected service to failed
\* (dm3_connected = False, client released) exactly at its 3rd consecutive
\* failed probe: a successful probe resets its count to 0, a 1st or 2nd
\* failure in a row only counts, the thread ends with the transition, and
\* dm3_connected becomes True again only by a connect request.
C12_FailedAtThirdFailure ==
    [][/\ \A i \in MonitorIds, probe \in BOOLEAN :
            (MonitorProbe(i, probe) /\ dm3_connected)
            => LET third == ProbeFails(probe) /\ monitors[i].failures = 2
               IN  /\ dm3_connected' = ~third
                   /\ third => ~dm3_client' /\ monitors'[i].pc = "none"
                   /\ ~third => /\ dm3_client' = dm3_client
                                /\ monitors'[i].pc = "loop"
                                /\ monitors'[i].failures =
                                      IF ProbeFails(probe)
                                      THEN monitors[i].failures + 1 ELSE 0
       /\ (~dm3_connected /\ dm3_connected')
            => \E probe, portOk, connectOk \in BOOLEAN :
                   OnConnect(probe, portOk, connectOk)
      ]_vars

\* The monitor has declared the DM3 session failed: the flag and the client
\* are cleared while the controller still shows the session as connected.
C12_Witness ==
    /\ dm3_service /\ mixer_var = DM3 /\ is_connected
    /\ ~dm3_connected /\ ~dm3_client
    /\ \A i \in MonitorIds : monitors[i].pc = "none"

\* The monitor has cleared the DM3 flag and client while the controller and
\* the view still show the session as connected.
MonitorDeclaredFailed ==
    /\ dm3_service /\ mixer_var = DM3 /\ is_connected /\ is_monitoring
    /\ ~dm3_connected /\ ~dm3_client

\* C13: once the monitor has declared the connection failed, the controller's
\* connection state (is_monitoring and the view's connected state) eventually
\* becomes disconnected, with no operator action required.
C13_FailureSurfaced ==
    MonitorDeclaredFailed ~> (~is_monitoring /\ ~is_connected)

\* C14: while a mixer connection is active exactly one health-monitor task
\* runs for it, never zero and never two, for the DM3 and for the Qu service.
C14_ExactlyOneMonitor ==
    /\ dm3_connected => Cardinality(Live(monitors)) = 1
    /\ qu5_connected => Cardinality(qu5_monitors) = 1

\* C15: when disconnect() clears the client handle and the connected flag, the
\* monitor thread has already terminated: no monitor thread of the session is
\* left to probe or write state afterwards.
C15_MonitorStoppedBeforeTeardown ==
    [][(\E done \in SUBSET MonitorIds, probed \in BOOLEAN :
            OnDisconnect(done, probed))
          => Live(monitors') = {}]_vars

C17_QueueBounded ==
    /\ queue_maxsize > 0
    /\ Len(message_queue) <= queue_maxsize

\* The events handed to the message handler in the last tick, in order.
Dispatched(log) == [i \in 1..Len(log) |-> log[i].msg]

\* C18: events reach the message handler in the order of their enqueuing,
\* within a tick and across ticks, none twice and none before an earlier one:
\* in every step either the events dispatched followed by the events left in
\* the queue are exactly the queue as it was, or nothing is dispatched and one
\* event is appended at the end.
C18_Fifo ==
    [][\/ Dispatched(tickLog') \o message_queue' = message_queue
       \/ /\ tickLog' = << >>
          /\ \E message \in QueueEvents :
                 message_queue' = Append(message_queue, message)]_vars

\* A tick has dispatched two different events.
C18_Witness ==
    /\ Len(tickLog) = 2
    /\ tickLog[1].msg # tickLog[2].msg

\* C19: one dispatch tick hands at most 100 events to the handler, whatever
\* the queue length, and the events beyond the batch stay queued in order: the
\* events dispatched followed by the queue left are the queue as it was.
C19_AtMost100PerTick ==
    [][/\ Len(tickLog') <= 100
       /\ tickLog' # << >> =>
              Dispatched(tickLog') \o message_queue' = message_queue]_vars

\* A tick has dispatched 100 events and left the rest of the burst queued.
C19_Witness ==
    /\ Len(tickLog) = 100
    /\ Len(message_queue) = 2
    /\ message_queue[1] # message_queue[2]

\* A send failed while the i-th event of the last tick was dispatched.
ErrorAt(log, i) == i \in 1..Len(log) /\ log[i].failAt # 0

\* C20: an error raised while an event is dispatched neither ends the dispatch
\* loop nor stops later events: a tick with a failed send still hands every
\* event of its batch to the handler and leaves monitoring on, and whatever is
\* queued while monitoring is on is eventually dispatched by a tick.
C20_ErrorsDoNotStopDispatch ==
    /\ [][(\E i \in 1..Len(tickLog') : ErrorAt(tickLog', i))
             => /\ Dispatched(tickLog') \o message_queue' = message_queue
                /\ Len(tickLog') = Min(Len(message_queue), max_messages)
                /\ is_monitoring']_vars
    /\ (message_queue # << >> /\ is_monitoring)
           ~> (message_queue = << >> \/ ~is_monitoring)

\* The send for the first event of a tick failed and the tick went on to
\* dispatch the event queued after it.
C20_Witness ==
    /\ Len(tickLog) = 2
    /\ ErrorAt(tickLog, 1)
    /\ is_monitoring

IsLiveNoteOn(r) == r.msg.type = NOTE_ON_TYPE /\ r.msg.velocity > 0
NoAction(r) == NothingSent(r) /\ ConnectionUnchanged(r)

\* C22: on the soft-key channel 0 and the scene channel 1 only a NoteOn with
\* velocity > 0 leads to an adapter action; a NoteOff or a NoteOn with
\* velocity 0 there, and every message that is not a note, transmit nothing
\* and report nothing; a note on a channel outside {0,1,2} transmits nothing
\* and is only reported as unrecognized; a scene NoteOn recalls scene
\* note + 1 (index note on the wire).
C22_RouterGating ==
    \A r \in Records :
        LET isNote == r.msg.type \in {NOTE_ON_TYPE, NOTE_OFF_TYPE}
        IN  /\ (isNote /\ r.msg.channel \in {0, 1} /\ ~IsLiveNoteOn(r))
                   => NoAction(r) /\ r.reports = {}
            /\ (isNote /\ r.msg.channel \notin {0, 1, 2})
                   => NoAction(r) /\ r.reports = {"unhandled_channel"}
            /\ ~isNote => NoAction(r) /\ r.reports = {}
            /\ (r.msg.channel = 0 /\ ~NothingSent(r)) => r.mixer = QU
            /\ (r.msg.channel = 1 /\ r.osc # << >>)
                   => Len(r.osc) = 1 /\ r.osc[1].value = (r.msg.note + 1) - 1
            /\ (r.msg.channel = 1 /\ r.tx # << >>)
                   => r.tx[Len(r.tx)][2] = (r.msg.note + 1) - 1

\* A NoteOn with velocity 0 on the soft-key channel was dispatched while the
\* Qu session was up.
C22_Witness ==
    \E r \in Records :
        /\ IsNote(r, NOTE_ON_TYPE, 0) /\ r.msg.velocity = 0
        /\ r.msg.note = 7
        /\ QuSession(r)

\* The connected flag of the service a record's event was routed to.
FlagBefore(r) == IF r.mixer = QU THEN r.quc_before ELSE r.dmc_before
FlagAfter(r) == IF r.mixer = QU THEN r.quc ELSE r.dmc

\* C23: a send that raises leaves the service's connected flag False, and
\* nothing is transmitted from then on until a new connect: in every tick a
\* record with a failed send ends not connected, a record transmits only if
\* its service was connected before it, the flags pass from the state through
\* the records of the tick into the next state, and outside a connect request
\* no flag goes from False to True.
C23_FailedSendDisconnects ==
    [][/\ \A i \in 1..Len(tickLog') :
              LET r == tickLog'[i]
              IN  /\ r.failAt # 0 => ~FlagAfter(r)
                  /\ ~NothingSent(r) => FlagBefore(r)
                  /\ r.quc => r.quc_before
                  /\ r.dmc => r.dmc_before
                  /\ r.quc_before = IF i = 1 THEN qu5_connected ELSE tickLog'[i - 1].quc
                  /\ r.dmc_before = IF i = 1 THEN dm3_connected ELSE tickLog'[i - 1].dmc
       /\ tickLog' # << >> =>
              /\ qu5_connected' = tickLog'[Len(tickLog')].quc
              /\ dm3_connected' = tickLog'[Len(tickLog')].dmc
       /\ ((~qu5_connected /\ qu5_connected') \/ (~dm3_connected /\ dm3_connected'))
              => \E probe, portOk, connectOk \in BOOLEAN :
                     OnConnect(probe, portOk, connectOk)]_vars

\* The OSC send for the first event of a tick failed: the DM3 service is left
\* not connected and the event queued after it is not transmitted.
C23_Witness ==
    /\ Len(tickLog) = 2
    /\ tickLog[1].mixer = DM3 /\ tickLog[1].dmc_before
    /\ tickLog[1].failAt = 1 /\ ~tickLog[1].dmc
    /\ NothingSent(tickLog[2])
    /\ ~dm3_connected

\* A connect request that runs a service's connect() past the already
\* connected test, so that a successful one creates a new transport.
ConnectOpens ==
    /\ \E probe, portOk, connectOk \in BOOLEAN : OnConnect(probe, portOk, connectOk)
    /\ \/ mixer_var = QU /\ use_tcp_midi' /\ qu5_socket' = "open"
       \/ mixer_var = DM3 /\ dm3_client'

QuConnectStepFails(probe, portOk, connectOk) ==
    LET fresh == qu5_service /\ dm3_service /\ qu5_ping_fresh
    IN  (~fresh /\ ~probe) \/ ~portOk \/ ~connectOk

\* C25: when a step of the Qu TCP connect fails, the connect reports failure
\* and leaves no partially-open socket: afterwards qu5_socket is None,
\* qu5_connected is False and the controller shows no connection.
C25_FailedConnectLeavesNoSocket ==
    [][\A probe, portOk, connectOk \in BOOLEAN :
           ( /\ OnConnect(probe, portOk, connectOk)
             /\ mixer_var = QU /\ use_tcp_midi'
             /\ QuConnectStepFails(probe, portOk, connectOk) )
           => /\ qu5_socket' = "none"
              /\ ~qu5_connected'
              /\ ~is_connected' /\ ~is_monitoring']_vars

\* A Qu TCP connect was attempted and left no session: the service exists,
\* its ping had succeeded, and it holds no socket and is not connected.
C25_Witness ==
    /\ mixer_var = QU /\ qu5_service /\ ~dm3_service /\ use_tcp_midi
    /\ qu5_ping_fresh
    /\ qu5_socket = "none" /\ ~qu5_connected /\ ~is_connected

\* The service object that the next connect request for `mixer` will use has
\* a successful ping less than _ping_interval old (a service created by
\* _initialize_services in that request starts with no ping).
CachedPing(mixer) ==
    /\ dm3_service /\ qu5_service
    /\ IF mixer = DM3 THEN dm3_ping_fresh ELSE qu5_ping_fresh

\* C26: a connect marks the session connected only after a reachability probe
\* was run, and succeeded, during that connect call: no connect that raises a
\* connected flag relies on an earlier probe.
C26_ProbeRunInConnect ==
    [][\A probe, portOk, connectOk \in BOOLEAN :
           OnConnect(probe, portOk, connectOk) =>
               /\ (~dm3_connected /\ dm3_connected')
                      => ~CachedPing(DM3) /\ probe
               /\ (~qu5_connected /\ qu5_connected' /\ use_tcp_midi')
                      => ~CachedPing(QU) /\ probe]_vars

(***************************************************************************)
(* ping_host on one service object, with the clock explicit.               *)
(***************************************************************************)
\* One second passes.
TimePasses ==
    /\ current_time < MaxTime
    /\ current_time' = current_time + 1
    /\ UNCHANGED << initialized, virtual_port_active, viewVars, is_monitoring,
                    qu5Vars, dm3Vars, message_queue, tickLog,
                    last_ping_time, last_probe, ping_call, apiVars, lockVars >>

\* A call of ping_host; the ping command, if run, answers `probe`.
PingCall(probe) ==
    LET r == ping_host_at(current_time, last_ping_time, probe)
    IN  /\ last_ping_time' = r.last
        /\ ping_call' = [called |-> TRUE, probed |-> r.probed, ret |-> r.ret]
        /\ last_probe' = IF r.probed
                         THEN [time |-> current_time, result |-> probe, run |-> TRUE]
                         ELSE last_probe
        /\ UNCHANGED << initialized, virtual_port_active, viewVars, is_monitoring,
                        qu5Vars, dm3Vars, message_queue, tickLog, current_time,
                        apiVars, lockVars >>

PingNext ==
    \/ TimePasses
    \/ \E probe \in BOOLEAN : PingCall(probe)

PingSpec == Init /\ [][PingNext]_vars

\* The previous probe was run less than _ping_interval ago.
ProbeRecent == last_probe.run /\ current_time - last_probe.time < ping_interval

\* C27: ping_host caches the last probe result: a call less than the ping
\* interval after the previous probe returns that probe's result, success or
\* failure, without a new probe; a call after the interval runs a new probe.
C27_CachesLastResult ==
    [][\A probe \in BOOLEAN :
           PingCall(probe) =>
               IF ProbeRecent
               THEN ~ping_call'.probed /\ ping_call'.ret = last_probe.result
               ELSE ping_call'.probed]_vars

(***************************************************************************)
(* connect() called on a service that is connected.                        *)
(***************************************************************************)
\* connect() of the selected mixer's service, called while that service is
\* connected.
ConnectAgain(probe, portOk, connectOk) ==
    /\ initialized
    /\ IF mixer_var = DM3 THEN dm3_service /\ dm3_connected
                          ELSE qu5_service /\ qu5_connected
    /\ LET dc == IF mixer_var = DM3 THEN dm3_connect(Dm3Fields, probe)
                 ELSE [ret |-> FALSE, D |-> Dm3Fields]
           qc == IF mixer_var = QU
                 THEN qu5_connect(Qu5Fields, probe, portOk, connectOk)
                 ELSE [ret |-> FALSE, Q |-> Qu5Fields]
       IN  /\ dm3_service' = dc.D.service
           /\ dm3_mixer_name' = dc.D.name
           /\ dm3_client' = dc.D.client
           /\ dm3_connected' = dc.D.connected
           /\ dm3_ping_fresh' = dc.D.fresh
           /\ connection_monitor_active' = dc.D.active
           /\ monitors' = dc.D.monitors
           /\ qu5_service' = qc.Q.service
           /\ qu5_mixer_name' = qc.Q.name
           /\ use_tcp_midi' = qc.Q.tcp
           /\ qu5_socket' = qc.Q.socket
           /\ qu5_connected' = qc.Q.connected
           /\ qu5_ping_fresh' = qc.Q.fresh
           /\ connect_call' = [called |-> TRUE, mixer |-> mixer_var,
                               ret |-> IF mixer_var = DM3 THEN dc.ret ELSE qc.ret]
    /\ tickLog' = << >>
    /\ UNCHANGED << initialized, virtual_port_active, viewVars, is_monitoring,
                    message_queue, pingVars, lockVars, shutdown_completed,
                    port_thread >>

ServiceNext ==
    \/ Background
    \/ \E probe, portOk, connectOk \in BOOLEAN : ConnectFresh(probe, portOk, connectOk)
    \/ \E probe, portOk, connectOk \in BOOLEAN : ConnectAgain(probe, portOk, connectOk)

ServiceSpec == Init /\ [][ServiceNext]_vars

\* C28: connect() is idempotent when already connected: on a connected service
\* it returns True and changes nothing: no new socket or OSC client, no new
\* probe, no additional monitor thread, connected flag unchanged.
C28_ConnectIdempotent ==
    [][\A probe, portOk, connectOk \in BOOLEAN :
           ConnectAgain(probe, portOk, connectOk) =>
               /\ connect_call'.ret
               /\ UNCHANGED << qu5Vars, dm3Vars >>]_vars

\* connect() was called on a connected DM3 service whose monitor thread runs.
C28_Witness ==
    /\ connect_call.called /\ connect_call.mixer = DM3
    /\ dm3_connected /\ dm3_client /\ Live(monitors) # {}

Acquire(lock, service) == [lock EXCEPT ![service] = "control"]
Release(lock, service) == [lock EXCEPT ![service] = "none"]

\* The transport mode of the Qu service the next connect request will use.
NextQuTcp == IF ~dm3_service \/ ~qu5_service THEN use_tcp_midi_var ELSE use_tcp_midi

\* _on_connect up to the first blocking call inside connect(): the services
\* are created, connect() enters `with self._connection_lock` and ping_host
\* runs the ping command unless its cache is fresh.
ConnectBegin ==
    /\ control_pc = "idle"
    /\ initialized /\ ~is_connected
    /\ LET needInit == ~dm3_service \/ ~qu5_service
           D0 == IF needInit /\ mixer_var = DM3 THEN NewDm3(mixer_var) ELSE Dm3Fields
           Q0 == IF needInit /\ mixer_var = QU THEN NewQu5(mixer_var) ELSE Qu5Fields
       IN  /\ IF mixer_var = DM3
              THEN /\ ~D0.connected
                   /\ ~D0.active => Live(D0.monitors) # MonitorIds
                   /\ connection_lock' = Acquire(connection_lock, "dm3")
                   /\ control_pc' = IF D0.fresh THEN "dm3_connect_send"
                                    ELSE "dm3_connect_ping"
              ELSE /\ ~Q0.connected /\ Q0.tcp
                   /\ connection_lock' = Acquire(connection_lock, "qu5")
                   /\ control_pc' = IF Q0.fresh THEN "qu5_connect_tcp"
                                    ELSE "qu5_connect_ping"
           /\ dm3_service' = D0.service
           /\ dm3_mixer_name' = D0.name
           /\ dm3_client' = D0.client
           /\ dm3_connected' = D0.connected
           /\ dm3_ping_fresh' = D0.fresh
           /\ connection_monitor_active' = D0.active
           /\ monitors' = D0.monitors
           /\ qu5_service' = Q0.service
           /\ qu5_mixer_name' = Q0.name
           /\ use_tcp_midi' = Q0.tcp
           /\ qu5_socket' = Q0.socket
           /\ qu5_connected' = Q0.connected
           /\ qu5_ping_fresh' = Q0.fresh
    /\ tickLog' = << >>
    /\ UNCHANGED << initialized, virtual_port_active, viewVars, is_monitoring,
                    message_queue, pingVars, apiVars, logger_lock >>

\* A connect request in USB mode: _connect_usb_midi makes no network call.
ConnectUsb ==
    /\ control_pc = "idle"
    /\ mixer_var = QU /\ ~NextQuTcp
    /\ OnConnect(TRUE, TRUE, TRUE)

\* The ping command of connect() returns `probe`; on failure connect() cleans
\* up and leaves the `with` block.
ConnectPingEnd(probe) ==
    /\ control_pc \in {"dm3_connect_ping", "qu5_connect_ping"}
    /\ IF control_pc = "dm3_connect_ping"
       THEN /\ dm3_ping_fresh' = probe
            /\ dm3_client' = (dm3_client /\ probe)
            /\ dm3_connected' = (dm3_connected /\ probe)
            /\ control_pc' = IF probe THEN "dm3_connect_send" ELSE "idle"
            /\ connection_lock' = IF probe THEN connection_lock
                                  ELSE Release(connection_lock, "dm3")
            /\ UNCHANGED << qu5_ping_fresh, qu5_socket, qu5_connected >>
       ELSE /\ qu5_ping_fresh' = probe
            /\ qu5_socket' = IF probe THEN qu5_socket ELSE "none"
            /\ qu5_connected' = (qu5_connected /\ probe)
            /\ control_pc' = IF probe THEN "qu5_connect_tcp" ELSE "idle"
            /\ connection_lock' = IF probe THEN connection_lock
                                  ELSE Release(connection_lock, "qu5")
            /\ UNCHANGED << dm3_ping_fresh, dm3_client, dm3_connected >>
    /\ tickLog' = << >>
    /\ UNCHANGED << initialized, virtual_port_active, viewVars, is_monitoring,
                    qu5_service, qu5_mixer_name, use_tcp_midi,
                    dm3_service, dm3_mixer_name, connection_monitor_active,
                    monitors, message_queue, pingVars, apiVars, logger_lock >>

\* The last blocking call of connect() returns (the OSC test message, whose
\* failure is ignored, or the TCP connect); connect() sets the flag, starts
\* the monitor, leaves the `with` block, and _on_connect updates the view.
ConnectEnd(portOk, connectOk) ==
    /\ control_pc \in {"dm3_connect_send", "qu5_connect_tcp"}
    /\ IF control_pc = "dm3_connect_send"
       THEN LET m == start_connection_monitor(connection_monitor_active, monitors)
            IN  /\ dm3_client' = TRUE
                /\ dm3_connected' = TRUE
                /\ connection_monitor_active' = m.active
                /\ monitors' = m.monitors
                /\ connection_lock' = Release(connection_lock, "dm3")
                /\ is_monitoring' = (is_monitoring \/ start_monitoring)
                /\ is_connected' = (is_connected \/ start_monitoring)
                /\ UNCHANGED << qu5_socket, qu5_connected >>
       ELSE LET ok == portOk /\ connectOk
            IN  /\ qu5_socket' = IF ok THEN "open" ELSE "none"
                /\ qu5_connected' = ok
                /\ connection_lock' = Release(connection_lock, "qu5")
                /\ is_monitoring' = (is_monitoring \/ (ok /\ start_monitoring))
                /\ is_connected' = (is_connected \/ (ok /\ start_monitoring))
                /\ UNCHANGED << dm3_client, dm3_connected,
                                connection_monitor_active, monitors >>
    /\ control_pc' = "idle"
    /\ tickLog' = << >>
    /\ UNCHANGED << initialized, virtual_port_active, mixer_var, midi_channel_var,
                    use_tcp_midi_var, qu5_service, qu5_mixer_name, use_tcp_midi,
                    qu5_ping_fresh, dm3_service, dm3_mixer_name, dm3_ping_fresh,
                    message_queue, pingVars, apiVars, logger_lock >>

\* The dispatch tick inside send_osc_message: the lock is taken, the flags
\* are tested and dm3_client.send_message is called.
SendOscBegin ==
    /\ control_pc = "idle"
    /\ is_monitoring /\ dm3_service /\ dm3_connected /\ dm3_client
    /\ connection_lock' = Acquire(connection_lock, "dm3")
    /\ control_pc' = "dm3_send"
    /\ tickLog' = << >>
    /\ UNCHANGED << initialized, virtual_port_active, viewVars, is_monitoring,
                    qu5Vars, dm3Vars, message_queue, pingVars, apiVars, logger_lock >>

\* The dispatch tick inside send_midi_message in TCP mode: the lock is
\* taken, the flag is tested and qu5_socket.send is called.
SendMidiBegin ==
    /\ control_pc = "idle"
    /\ is_monitoring /\ qu5_service /\ qu5_connected
    /\ use_tcp_midi /\ qu5_socket = "open"
    /\ connection_lock' = Acquire(connection_lock, "qu5")
    /\ control_pc' = "qu5_send"
    /\ tickLog' = << >>
    /\ UNCHANGED << initialized, virtual_port_active, viewVars, is_monitoring,
                    qu5Vars, dm3Vars, message_queue, pingVars, apiVars, logger_lock >>

\* The send returns or raises; the except branch clears the connected flag;
\* the `with` block is left.
SendEnd(raises) ==
    /\ control_pc \in {"dm3_send", "qu5_send"}
    /\ IF control_pc = "dm3_send"
       THEN /\ dm3_connected' = (dm3_connected /\ ~raises)
            /\ connection_lock' = Release(connection_lock, "dm3")
            /\ UNCHANGED qu5_connected
       ELSE /\ qu5_connected' = (qu5_connected /\ ~raises)
            /\ connection_lock' = Release(connection_lock, "qu5")
            /\ UNCHANGED dm3_connected
    /\ control_pc' = "idle"
    /\ tickLog' = << >>
    /\ UNCHANGED << initialized, virtual_port_active, viewVars, is_monitoring,
                    qu5_service, qu5_mixer_name, use_tcp_midi, qu5_socket,
                    qu5_ping_fresh, dm3_service, dm3_mixer_name, dm3_client,
                    dm3_ping_fresh, connection_monitor_active, monitors,
                    message_queue, pingVars, apiVars, logger_lock >>

\* connection_monitor after time.sleep(3): the connected test, then
\* ping_host, which takes no lock and runs the ping command unless its cache
\* is fresh.
MonitorWake(i) ==
    /\ monitors[i].pc = "sleep"
    /\ monitors' = [monitors EXCEPT ![i] =
           IF ~dm3_connected THEN NoMonitor
           ELSE IF dm3_ping_fresh THEN [stale |-> monitors[i].stale, pc |-> "loop", failures |-> 0]
           ELSE [stale |-> monitors[i].stale, pc |-> "ping", failures |-> monitors[i].failures]]
    /\ tickLog' = << >>
    /\ UNCHANGED << initialized, virtual_port_active, viewVars, is_monitoring,
                    qu5Vars, dm3_service, dm3_mixer_name, dm3_client,
                    dm3_connected, dm3_ping_fresh, connection_monitor_active,
                    message_queue, callVars >>

\* The ping command of the monitor returns `probe`; the failure count.
MonitorPingEnd(i, probe) ==
    /\ monitors[i].pc = "ping"
    /\ LET consecutive_failures == IF probe THEN 0 ELSE monitors[i].failures + 1
           failed == consecutive_failures >= max_failures
       IN  /\ dm3_ping_fresh' = (dm3_ping_fresh \/ probe)
           /\ dm3_connected' = (dm3_connected /\ ~failed)
           /\ dm3_client' = (dm3_client /\ ~failed)
           /\ monitors' = [monitors EXCEPT ![i] =
                  IF failed THEN NoMonitor
                  ELSE [stale |-> monitors[i].stale, pc |-> "loop", failures |-> consecutive_failures]]
    /\ tickLog' = << >>
    /\ UNCHANGED << initialized, virtual_port_active, viewVars, is_monitoring,
                    qu5Vars, dm3_service, dm3_mixer_name,
                    connection_monitor_active, message_queue, callVars >>

LockNext ==
    \/ Initialize
    \/ \E m \in Mixers : control_pc = "idle" /\ OnMixerChanged(m)
    \/ control_pc = "idle" /\ ToggleTcpMidi
    \/ ConnectBegin
    \/ ConnectUsb
    \/ \E probe \in BOOLEAN : ConnectPingEnd(probe)
    \/ \E portOk, connectOk \in BOOLEAN : ConnectEnd(portOk, connectOk)
    \/ SendOscBegin
    \/ SendMidiBegin
    \/ \E raises \in BOOLEAN : SendEnd(raises)
    \/ \E done \in SUBSET MonitorIds, probed \in BOOLEAN :
           control_pc = "idle" /\ OnDisconnect(done, probed)
    \/ \E i \in MonitorIds : MonitorLoop(i)
    \/ \E i \in MonitorIds : MonitorWake(i)
    \/ \E i \in MonitorIds, probe \in BOOLEAN : MonitorPingEnd(i, probe)
    \/ PingCacheExpires

LockSpec == Init /\ [][LockNext]_vars

\* C30: neither the dispatch loop nor the monitor holds the service lock
\* while a blocking network call of theirs is in progress.
C30_NoLockAcrossNetworkCall ==
    /\ control_pc = "dm3_send" => connection_lock.dm3 # "control"
    /\ control_pc = "qu5_send" => connection_lock.qu5 # "control"
    /\ \A i \in MonitorIds :
           monitors[i].pc = "ping" => connection_lock.dm3 # "monitor"

(***************************************************************************)
(* disconnect() statement by statement, with the monitor threads writing   *)
(* to the service's logger.  logger.warning holds ThreadSafeLogger._lock   *)
(* while _send_to_gui calls view.append_log, which on a thread other than  *)
(* the main thread calls root.after(0, ...).                               *)
(***************************************************************************)
\* _on_disconnect -> DM3OSCService.disconnect -> stop_connection_monitor: the
\* connection lock is taken, the flag is cleared and the thread is joined.
DisconnectBegin ==
    /\ control_pc = "idle"
    /\ initialized /\ is_connected /\ dm3_service
    /\ connection_lock' = Acquire(connection_lock, "dm3")
    /\ connection_monitor_active' = FALSE
    /\ control_pc' = IF Live(monitors) # {} THEN "disc_join" ELSE "disc_log"
    /\ tickLog' = << >>
    /\ UNCHANGED << initialized, virtual_port_active, viewVars, is_monitoring,
                    qu5Vars, dm3_service, dm3_mixer_name, dm3_client,
                    dm3_connected, dm3_ping_fresh, monitors, message_queue,
                    pingVars, apiVars, logger_lock >>

\* join(timeout=2.0) returns: the thread has ended or the two seconds are over.
DisconnectJoinEnd ==
    /\ control_pc = "disc_join"
    /\ control_pc' = "disc_log"
    /\ tickLog' = << >>
    /\ UNCHANGED << initialized, virtual_port_active, viewVars, is_monitoring,
                    qu5Vars, dm3Vars, message_queue, pingVars, apiVars,
                    connection_lock, logger_lock >>

\* self.logger.info(...) of stop_connection_monitor enters `with self._lock`
\* of the logger; then the rest of disconnect and of _on_disconnect.
DisconnectLog ==
    /\ control_pc = "disc_log"
    /\ logger_lock = 0
    /\ LET D == dm3_disconnect(Dm3Fields, {}, FALSE)
           Q == IF qu5_service THEN qu5_disconnect(Qu5Fields) ELSE Qu5Fields
       IN  /\ dm3_client' = D.client
           /\ dm3_connected' = D.connected
           /\ qu5_socket' = Q.socket
           /\ qu5_connected' = Q.connected
    /\ connection_lock' = Release(connection_lock, "dm3")
    /\ control_pc' = "idle"
    /\ is_monitoring' = FALSE
    /\ is_connected' = FALSE
    /\ tickLog' = << >>
    /\ UNCHANGED << initialized, virtual_port_active, mixer_var, midi_channel_var,
                    use_tcp_midi_var, qu5_service, qu5_mixer_name, use_tcp_midi,
                    qu5_ping_fresh, dm3_service, dm3_mixer_name, dm3_ping_fresh,
                    connection_monitor_active, monitors, message_queue,
                    pingVars, apiVars, logger_lock >>

\* The ping command of the monitor returns `probe`; a failure is counted and
\* is about to be logged.
MonitorPingDone(i, probe) ==
    /\ monitors[i].pc = "ping"
    /\ dm3_ping_fresh' = (dm3_ping_fresh \/ probe)
    /\ monitors' = [monitors EXCEPT ![i] =
           IF probe THEN [stale |-> monitors[i].stale, pc |-> "loop", failures |-> 0]
           ELSE [stale |-> monitors[i].stale, pc |-> "warn", failures |-> monitors[i].failures + 1]]
    /\ tickLog' = << >>
    /\ UNCHANGED << initialized, virtual_port_active, viewVars, is_monitoring,
                    qu5Vars, dm3_service, dm3_mixer_name, dm3_client,
                    dm3_connected, connection_monitor_active, message_queue,
                    callVars >>

\* logger.warning on the monitor thread: `with self._lock`, then
\* _send_to_gui -> append_log -> root.after.  A call into Tk from another
\* thread either returns at once or (`blocked`) waits until the main thread
\* is back in its event loop, depending on the Tcl build.
MonitorLogBegin(i, blocked) ==
    /\ monitors[i].pc = "warn"
    /\ logger_lock = 0
    /\ logger_lock' = i
    /\ monitors' = [monitors EXCEPT ![i].pc = IF blocked THEN "gui_blocked" ELSE "gui"]
    /\ tickLog' = << >>
    /\ UNCHANGED << initialized, virtual_port_active, viewVars, is_monitoring,
                    qu5Vars, dm3_service, dm3_mixer_name, dm3_client,
                    dm3_connected, dm3_ping_fresh, connection_monitor_active,
                    message_queue, pingVars, apiVars, connection_lock,
                    control_pc >>

\* root.after has returned: the logger's lock is released; after the third
\* failure the flags are cleared and the thread ends.
MonitorLogEnd(i) ==
    /\ monitors[i].pc \in {"gui", "gui_blocked"}
    /\ monitors[i].pc = "gui_blocked" => control_pc = "idle"
    /\ logger_lock' = 0
    /\ LET failed == monitors[i].failures >= max_failures
       IN  /\ dm3_connected' = (dm3_connected /\ ~failed)
           /\ dm3_client' = (dm3_client /\ ~failed)
           /\ monitors' = [monitors EXCEPT ![i] =
                  IF failed THEN NoMonitor
                  ELSE [stale |-> monitors[i].stale, pc |-> "loop", failures |-> monitors[i].failures]]
    /\ tickLog' = << >>
    /\ UNCHANGED << initialized, virtual_port_active, viewVars, is_monitoring,
                    qu5Vars, dm3_service, dm3_mixer_name, dm3_ping_fresh,
                    connection_monitor_active, message_queue, pingVars,
                    apiVars, connection_lock, control_pc >>

\* A connect request that does not replace the DM3 service object: the first
\* object's logger is the one that logs (ThreadSafeLogger.__init__ sets
\* _initialized only when the named logger has no handlers yet; the logger
\* of a later object returns before it takes its lock).
ConnectFirst(probe, portOk, connectOk) ==
    /\ control_pc = "idle"
    /\ ~(mixer_var = DM3 /\ dm3_service /\ ~qu5_service)
    /\ ConnectFresh(probe, portOk, connectOk)

StopNext ==
    \/ Initialize
    \/ \E m \in Mixers : control_pc = "idle" /\ OnMixerChanged(m)
    \/ \E probe, portOk, connectOk \in BOOLEAN : ConnectFirst(probe, portOk, connectOk)
    \/ DisconnectBegin
    \/ DisconnectJoinEnd
    \/ DisconnectLog
    \/ \E i \in MonitorIds : MonitorLoop(i)
    \/ \E i \in MonitorIds : MonitorWake(i)
    \/ \E i \in MonitorIds, probe \in BOOLEAN : MonitorPingDone(i, probe)
    \/ \E i \in MonitorIds, blocked \in BOOLEAN : MonitorLogBegin(i, blocked)
    \/ \E i \in MonitorIds : MonitorLogEnd(i)
    \/ PingCacheExpires

StopSpec == Init /\ [][StopNext]_vars

\* Scheduling: the join times out, and every thread that can take its next
\* statement takes it.
StopFairness ==
    /\ WF_vars(DisconnectJoinEnd)
    /\ WF_vars(DisconnectLog)
    /\ \A i \in MonitorIds :
           /\ WF_vars(MonitorLoop(i))
           /\ WF_vars(MonitorWake(i))
           /\ WF_vars(\E probe \in BOOLEAN : MonitorPingDone(i, probe))
           /\ WF_vars(\E blocked \in BOOLEAN : MonitorLogBegin(i, blocked))
           /\ WF_vars(MonitorLogEnd(i))

StopFairSpec == StopSpec /\ StopFairness

\* C31: disconnect() always terminates: once entered it returns, whatever the
\* monitor thread is doing, and leaves the service not connected with its
\* client released.
C31_DisconnectTerminates ==
    (control_pc \in {"disc_join", "disc_log"})
        ~> (control_pc = "idle" /\ ~dm3_connected /\ ~dm3_client)

(***************************************************************************)
(* Shutdown and the operations that can be called after it.                *)
(***************************************************************************)
\* MidiController.shutdown: the port watcher is stopped, _on_disconnect runs
\* if monitoring, both services are shut down (their shutdown() is
\* disconnect()), the backend is shut down (cleanup_virtual_ports clears
\* virtual_port_active), the view quits and _initialized is cleared.
Shutdown(done, probed) ==
    /\ initialized
    /\ done \subseteq Live(monitors)
    /\ probed => \E i \in done : monitors[i].pc = "sleep"
    /\ (done # {} \/ probed) => dm3_service
    /\ LET D == IF dm3_service THEN dm3_disconnect(Dm3Fields, done, probed)
                ELSE Dm3Fields
           Q == IF qu5_service THEN qu5_disconnect(Qu5Fields) ELSE Qu5Fields
       IN  /\ dm3_client' = D.client
           /\ dm3_connected' = D.connected
           /\ dm3_ping_fresh' = D.fresh
           /\ connection_monitor_active' = D.active
           /\ monitors' = D.monitors
           /\ qu5_socket' = Q.socket
           /\ qu5_connected' = Q.connected
    /\ is_connected' = (is_connected /\ ~is_monitoring)
    /\ is_monitoring' = FALSE
    /\ virtual_port_active' = FALSE
    /\ initialized' = FALSE
    /\ shutdown_completed' = TRUE
    /\ tickLog' = << >>
    /\ UNCHANGED << mixer_var, midi_channel_var, use_tcp_midi_var,
                    qu5_service, qu5_mixer_name, use_tcp_midi, qu5_ping_fresh,
                    dm3_service, dm3_mixer_name, message_queue,
                    pingVars, connect_call, port_thread, lockVars >>

\* The operations of the controller, shutdown among them.
LifecycleNext ==
    \/ Background
    \/ \E probe, portOk, connectOk \in BOOLEAN : ConnectFresh(probe, portOk, connectOk)
    \/ \E done \in SUBSET MonitorIds, probed \in BOOLEAN : Shutdown(done, probed)

LifecycleSpec == Init /\ [][LifecycleNext]_vars

\* C32: shutdown is terminal: once shutdown() has completed, no later
\* operation brings the controller or a service back to a connected or
\* monitoring state.
C32_ShutdownTerminal ==
    shutdown_completed =>
        /\ ~is_monitoring
        /\ ~dm3_connected /\ ~qu5_connected

\* C33: a monitor thread left over from an earlier session never changes the
\* state of a later session: it neither clears dm3_connected nor dm3_client.
C33_StaleMonitorHarmless ==
    [][\A i \in MonitorIds, probe \in BOOLEAN :
           (MonitorProbe(i, probe) /\ monitors[i].stale)
               => UNCHANGED << dm3_connected, dm3_client >>]_vars

\* C34: no message is transmitted to a mixer while its service is
\* disconnected: whenever a send hands a message to the network, the
\* service's connected flag is set.
C34_NoSendWhileDisconnected ==
    [][(SendEnd(FALSE) /\ control_pc = "dm3_send" => dm3_connected)
       /\ (SendEnd(FALSE) /\ control_pc = "qu5_send" => qu5_connected)]_vars

\* The soft-key NoteOn / NoteOff of record r as bytes on the wire.
SoftKeyOn(r) == << NoteOnStatus(r), 48 + r.msg.note, 127 >>
SoftKeyOff(r) == << NoteOffStatus(r), 48 + r.msg.note, 0 >>
OnWire(r, bytes) == \E j \in 1..Len(r.tx) : r.tx[j] = bytes

C36_NoStaleEvents ==
    [][(~is_monitoring /\ is_monitoring') => message_queue' = << >>]_vars

\* C37: a send reported as successful was handed to the transport, in TCP
\* and in USB mode alike: a soft-key press whose two sends both returned
\* True has its NoteOn and NoteOff on the wire, and a mute whose four sends
\* all returned True has its four Control Changes on the wire.
C37_SuccessMeansWritten ==
    \A r \in Records :
        (r.mixer = QU /\ r.quc_before)
        => /\ (IsPress(r, 0) /\ r.msg.note \in 0..7
               /\ "softkey_failed" \notin r.reports)
              => r.tx = << SoftKeyOn(r), SoftKeyOff(r) >>
           /\ (IsMuteEvent(r) /\ r.msg.note \in 0..15
               /\ "nrpn_cc_failed" \notin r.reports)
              => r.tx = NrpnBytes(r, MuteValue(r))

\* C38: every connect requested through the controller uses the connection
\* parameters currently entered in the view: a connect attempt of the Qu
\* service runs in the transport mode (TCP or USB) the view shows.
C38_ConnectUsesCurrentParams ==
    [][\A probe, portOk, connectOk \in BOOLEAN :
          (OnConnect(probe, portOk, connectOk) /\ mixer_var = QU /\ ~qu5_connected)
          => use_tcp_midi' = use_tcp_midi_var]_vars

(***************************************************************************)
(* Start-up with rtmidi available: create_virtual_ports marks the port     *)
(* active, starts the VirtualPortCreation thread and returns.  When the    *)
(* thread cannot open the ports (open_virtual_port raises) it calls        *)
(* cleanup_virtual_ports, which clears virtual_port_active, and then falls *)
(* back to simulation mode by setting it again.                            *)
(***************************************************************************)
InitializeWithPortThread ==
    /\ ~initialized /\ port_thread \in {"none", "done"}
    /\ initialized' = TRUE
    /\ virtual_port_active' = TRUE
    /\ port_thread' = "running"
    /\ tickLog' = << >>
    /\ UNCHANGED << viewVars, is_monitoring, qu5Vars, dm3Vars, message_queue,
                    pingVars, connect_call, shutdown_completed, lockVars >>

\* The thread opened both ports.
PortThreadCreated ==
    /\ port_thread = "running"
    /\ port_thread' = "done"
    /\ virtual_port_active' = TRUE
    /\ tickLog' = << >>
    /\ UNCHANGED << initialized, viewVars, is_monitoring, qu5Vars, dm3Vars,
                    message_queue, pingVars, connect_call, shutdown_completed,
                    lockVars >>

\* open_virtual_port raised: the except branch runs cleanup_virtual_ports.
PortThreadFailed ==
    /\ port_thread = "running"
    /\ port_thread' = "cleanup"
    /\ virtual_port_active' = FALSE
    /\ tickLog' = << >>
    /\ UNCHANGED << initialized, viewVars, is_monitoring, qu5Vars, dm3Vars,
                    message_queue, pingVars, connect_call, shutdown_completed,
                    lockVars >>

\* The fallback to simulation mode after the cleanup.
PortThreadFallback ==
    /\ port_thread = "cleanup"
    /\ port_thread' = "done"
    /\ virtual_port_active' = TRUE
    /\ tickLog' = << >>
    /\ UNCHANGED << initialized, viewVars, is_monitoring, qu5Vars, dm3Vars,
                    message_queue, pingVars, connect_call, shutdown_completed,
                    lockVars >>

StartupNext ==
    \/ Background
    \/ \E probe, portOk, connectOk \in BOOLEAN : ConnectFresh(probe, portOk, connectOk)
    \/ InitializeWithPortThread
    \/ PortThreadCreated
    \/ PortThreadFailed
    \/ PortThreadFallback

StartupSpec == Init /\ [][StartupNext]_vars

\* C39: a connect request that ends without setting is_monitoring leaves the
\* system disconnected: no mixer service is connected and no monitor thread
\* is running afterwards, and a service object that the request replaces was
\* disconnected before.
C39_FailedConnectLeavesDisconnected ==
    [][\A probe, portOk, connectOk \in BOOLEAN :
          OnConnect(probe, portOk, connectOk)
          => /\ ~is_monitoring'
                => ~dm3_connected' /\ ~qu5_connected' /\ Live(monitors') = {}
             /\ (mixer_var = DM3 /\ dm3_service /\ ~qu5_service)
                => ~dm3_connected /\ Live(monitors) = {}
             /\ (mixer_var = QU /\ qu5_service /\ ~dm3_service)
                => ~qu5_connected]_vars

====
